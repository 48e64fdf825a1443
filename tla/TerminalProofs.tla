--------------------------- MODULE TerminalProofs ---------------------------
(***************************************************************************)
(* Theorems about the two decoders a telnet server's bytes pass:           *)
(* TelnetCodec, for any number of items, inputs and Reads of any length,   *)
(* and Terminal, for a grid of any size and numbers that fit the code's    *)
(* int.  Each is proved of its own specification.                          *)
(***************************************************************************)
EXTENDS Terminal, TelnetCodec, TLAPS, FunctionTheorems, SequenceTheorems, WellFoundedInduction

(* The types and the ownership of rows, which need each other.             *)
Inv == TypeOK /\ RowsNotShared

(* What one byte does to the display, for the steps that erase nothing.    *)
TextMayAppear ==
  \A r \in RowIndex, c \in ColIndex :
    Shown(r, c) = Blank /\ Shown(r, c)' = Glyph =>
      \/ r = row' /\ c = col' - 1
      \/ row = Rows - 1 /\ r < Rows - 1 /\ Shown(r + 1, c) = Glyph

(* The screen keeps its type and its rows stay apart.                      *)
ScreenKept == ScreenOK' /\ RowsNotShared'

(* A written row is a row.                                                 *)
LEMMA WrittenType ==
  ASSUME NEW line \in [ColIndex -> {Blank, Glyph}], NEW columns
  PROVE  /\ BlankLine \in [ColIndex -> {Blank, Glyph}]
         /\ Written(line, columns) \in [ColIndex -> {Blank, Glyph}]
         /\ \A c \in ColIndex :
              Written(line, columns)[c] = IF c \in columns THEN Glyph ELSE line[c]
BY DEF Written, BlankLine

(* A resize makes new rows of blanks.                                      *)
LEMMA ResetGridScreen == ASSUME ResetGrid PROVE ScreenKept /\ TextMayAppear
<1>1. rows' \in [RowIndex -> Slices] /\ RowsNotShared'
  BY DEF ResetGrid, Injection, IsInjective, RowsNotShared
<1>2. row' \in RowIndex /\ col' \in 0..Cols
  BY TerminalAssumption DEF ResetGrid, RowIndex
<1>3. cells' = [s \in Slices |-> BlankLine]
  BY DEF ResetGrid
<1>4. cells' \in [Slices -> [ColIndex -> {Blank, Glyph}]]
  BY <1>3 DEF BlankLine
<1>5. \A r \in RowIndex, c \in ColIndex : Shown(r, c)' = Blank
  BY <1>1, <1>3 DEF Shown, BlankLine
<1> QED
  BY <1>1, <1>2, <1>4, <1>5, TerminalAssumption DEF ScreenKept, ScreenOK, TextMayAppear

(* The line the cursor moves to is the only one that gets text; the others *)
(* keep theirs, one line further up when the grid has scrolled.            *)
LEMMA NewLineScreen ==
  ASSUME ScreenOK, RowsNotShared, NEW columns, NewLine(columns)
  PROVE  /\ rows' \in [RowIndex -> Slices] /\ RowsNotShared'
         /\ cells' \in [Slices -> [ColIndex -> {Blank, Glyph}]]
         /\ row' \in RowIndex
         /\ \A r \in RowIndex, c \in ColIndex :
              Shown(r, c) = Blank /\ Shown(r, c)' = Glyph =>
                \/ r = row' /\ c \in columns
                \/ row = Rows - 1 /\ r < Rows - 1 /\ Shown(r + 1, c) = Glyph
<1>1. CASE /\ row < Rows - 1
           /\ row' = row + 1
           /\ cells' = [cells EXCEPT ![rows[row + 1]] = Written(@, columns)]
           /\ rows' = rows
  <2>1. row' \in RowIndex /\ row + 1 \in RowIndex
    BY <1>1, TerminalAssumption DEF ScreenOK, RowIndex
  <2>2. rows[row + 1] \in Slices
    BY <2>1 DEF ScreenOK
  <2>3. Written(cells[rows[row + 1]], columns) \in [ColIndex -> {Blank, Glyph}]
    BY <2>2, WrittenType DEF ScreenOK
  <2>4. cells' \in [Slices -> [ColIndex -> {Blank, Glyph}]]
    BY <1>1, <2>2, <2>3 DEF ScreenOK
  <2>5. ASSUME NEW r \in RowIndex, NEW c \in ColIndex,
               Shown(r, c) = Blank, Shown(r, c)' = Glyph
        PROVE  r = row' /\ c \in columns
    <3>1. rows'[r] = rows[r] /\ rows[r] \in Slices
      BY <1>1 DEF ScreenOK
    <3>2. CASE r = row + 1
      <4>1. cells'[rows[r]] = Written(cells[rows[r]], columns)
        BY <1>1, <3>1, <3>2 DEF ScreenOK
      <4>2. cells[rows[r]] \in [ColIndex -> {Blank, Glyph}]
        BY <3>1 DEF ScreenOK
      <4> QED BY <4>1, <4>2, <3>1, <3>2, <1>1, <2>5, WrittenType, TerminalAssumption DEF Shown
    <3>3. CASE r # row + 1
      <4>1. rows[r] # rows[row + 1]
        BY <3>3, <2>1 DEF RowsNotShared
      <4> QED BY <4>1, <3>1, <1>1, <2>5, TerminalAssumption DEF Shown, ScreenOK
    <3> QED BY <3>2, <3>3
  <2> QED BY <1>1, <2>1, <2>4, <2>5 DEF ScreenOK, RowsNotShared
<1>2. ASSUME row = Rows - 1, row' = row, NEW fresh \in BottomSlice,
             rows' = [r \in RowIndex |-> IF r = Rows - 1 THEN fresh ELSE rows[r + 1]],
             cells' = [s \in Slices |->
               IF s = fresh THEN Written(BlankLine, columns)
               ELSE IF s \in Range(rows') THEN cells[s] ELSE BlankLine]
      PROVE  /\ rows' \in [RowIndex -> Slices] /\ RowsNotShared'
             /\ cells' \in [Slices -> [ColIndex -> {Blank, Glyph}]]
             /\ row' \in RowIndex
             /\ \A r \in RowIndex, c \in ColIndex :
                  Shown(r, c) = Blank /\ Shown(r, c)' = Glyph =>
                    \/ r = row' /\ c \in columns
                    \/ row = Rows - 1 /\ r < Rows - 1 /\ Shown(r + 1, c) = Glyph
  <2>1. fresh \in Slices /\ \A r \in RowIndex : rows[r] # fresh
    BY <1>2 DEF BottomSlice, Range, ScreenOK
  <2>2. \A r \in RowIndex : r # Rows - 1 => r + 1 \in RowIndex /\ r < Rows - 1
    BY TerminalAssumption DEF RowIndex
  <2>3. rows' \in [RowIndex -> Slices]
    BY <1>2, <2>1, <2>2 DEF ScreenOK
  <2>4. ASSUME NEW r \in RowIndex, NEW q \in RowIndex, rows'[r] = rows'[q]
        PROVE  r = q
    <3>1. CASE r = Rows - 1 \/ q = Rows - 1
      BY <3>1, <2>4, <1>2, <2>1, <2>2
    <3>2. CASE r # Rows - 1 /\ q # Rows - 1
      <4>1. rows[r + 1] = rows[q + 1]
        BY <3>2, <2>4, <1>2
      <4>2. r + 1 = q + 1
        BY <4>1, <3>2, <2>2 DEF RowsNotShared
      <4> QED BY <4>2 DEF RowIndex
    <3> QED BY <3>1, <3>2
  <2>5. /\ BlankLine \in [ColIndex -> {Blank, Glyph}]
        /\ Written(BlankLine, columns) \in [ColIndex -> {Blank, Glyph}]
    BY WrittenType DEF BlankLine
  <2>6. cells' \in [Slices -> [ColIndex -> {Blank, Glyph}]]
    BY <1>2, <2>5 DEF ScreenOK
  <2>7. ASSUME NEW r \in RowIndex, NEW c \in ColIndex, Shown(r, c)' = Glyph
        PROVE  \/ r = row' /\ c \in columns
               \/ r < Rows - 1 /\ Shown(r + 1, c) = Glyph
    <3>1. CASE r = Rows - 1
      <4>1. cells'[rows'[r]] = Written(BlankLine, columns)
        BY <3>1, <1>2, <2>1
      <4>2. Written(BlankLine, columns)[c] = IF c \in columns THEN Glyph ELSE Blank
        BY <2>5, WrittenType DEF BlankLine
      <4> QED BY <4>1, <4>2, <3>1, <1>2, <2>7, TerminalAssumption DEF Shown
    <3>2. CASE r # Rows - 1
      <4>1. rows'[r] = rows[r + 1] /\ rows'[r] \in Slices /\ rows'[r] # fresh
        BY <3>2, <1>2, <2>1, <2>2 DEF ScreenOK
      <4>2. rows'[r] \in Range(rows')
        BY <2>3 DEF Range
      <4>3. cells'[rows'[r]] = cells[rows[r + 1]]
        BY <4>1, <4>2, <1>2
      <4> QED BY <4>3, <2>7, <3>2, <2>2 DEF Shown
    <3> QED BY <3>1, <3>2
  <2>8. RowsNotShared'
    BY <2>4 DEF RowsNotShared
  <2>9. row' \in RowIndex
    BY <1>2 DEF ScreenOK
  <2> QED BY <2>3, <2>6, <2>7, <2>8, <2>9, <1>2
<1> QED BY <1>1, <1>2 DEF NewLine

(* Erasing gives no cell a text.                                           *)
LEMMA ErasedScreen ==
  ASSUME ScreenOK, RowsNotShared, InPlace,
         cells' \in [Slices -> [ColIndex -> {Blank, Glyph}]],
         \A s \in Slices, c \in ColIndex : cells'[s][c] \in {Blank, cells[s][c]}
  PROVE  ScreenKept /\ TextMayAppear
<1>1. ScreenKept
  BY DEF ScreenKept, ScreenOK, InPlace, RowsNotShared, cursorVars
<1>2. \A r \in RowIndex, c \in ColIndex : Shown(r, c)' \in {Blank, Shown(r, c)}
  BY DEF ScreenOK, InPlace, Shown
<1> QED BY <1>1, <1>2, TerminalAssumption DEF TextMayAppear

(* The cursor is kept within the grid.                                     *)
LEMMA CursorMoved ==
  ASSUME ScreenOK, RowsNotShared, UNCHANGED gridVars,
         row' \in RowIndex, col' \in 0..Cols
  PROVE  ScreenKept /\ TextMayAppear
<1>1. ScreenKept
  BY DEF ScreenKept, ScreenOK, RowsNotShared, gridVars
<1>2. \A r \in RowIndex, c \in ColIndex : Shown(r, c)' = Shown(r, c)
  BY DEF Shown, gridVars
<1> QED BY <1>1, <1>2, TerminalAssumption DEF TextMayAppear

(* The numbers of a command are naturals.                                  *)
LEMMA NumbersType ==
  ASSUME ParserOK
  PROVE  /\ Numbers \in Seq(Nat) /\ Numbers # <<>> /\ Numbers[1] \in Nat
         /\ Param(1, 1) \in Nat /\ Param(2, 1) \in Nat
<1>1. Numbers \in Seq(Nat) /\ Numbers # <<>>
  <2>1. params \in Seq(Nat) /\ paramAccum \in Nat
    BY DEF ParserOK
  <2>2. Append(params, paramAccum) \in Seq(Nat) /\ Append(params, paramAccum) # <<>>
    BY <2>1
  <2>3. Numbers = Append(params, paramAccum) \/ (Numbers = params /\ params # <<>>)
    BY Zenon DEF Numbers
  <2> QED BY <2>1, <2>2, <2>3
<1>2. \A i \in 1..Len(Numbers) : Numbers[i] \in Nat
  BY <1>1
<1>3. Len(Numbers) \in Nat /\ Len(Numbers) >= 1
  BY <1>1
<1> QED BY <1>1, <1>2, <1>3 DEF Param

(* Erasing writes blanks.                                                  *)
LEMMA EraseScreen ==
  ASSUME TypeOK, RowsNotShared, EraseDisplay \/ EraseLine
  PROVE  ScreenKept /\ TextMayAppear
<1>1. \A r \in RowIndex : rows[r] \in Slices
  BY DEF TypeOK, ScreenOK
<1>2. ASSUME NEW region, Blanked(region), InPlace
      PROVE  ScreenKept /\ TextMayAppear
  <2>1. cells' \in [Slices -> [ColIndex -> {Blank, Glyph}]]
    BY <1>2 DEF Blanked, TypeOK, ScreenOK
  <2>2. \A s \in Slices, c \in ColIndex : cells'[s][c] \in {Blank, cells[s][c]}
    BY <1>2 DEF Blanked, TypeOK, ScreenOK
  <2> QED BY <2>1, <2>2, <1>2, ErasedScreen DEF TypeOK
<1>3. ASSUME UNCHANGED <<gridVars, cursorVars>> PROVE ScreenKept /\ TextMayAppear
  BY <1>3, CursorMoved DEF TypeOK, ScreenOK, cursorVars
<1>4. CASE EraseDisplay
  BY <1>2, <1>3, <1>4, ResetGridScreen DEF EraseDisplay
<1>5. CASE EraseLine
  <2>1. cells' = cells /\ InPlace => UNCHANGED <<gridVars, cursorVars>>
    BY DEF InPlace, gridVars
  <2> QED BY <1>2, <1>3, <1>5, <2>1 DEF EraseLine
<1> QED BY <1>4, <1>5

(* The next tab stop is a column.                                          *)
LEMMA TabStopNatural ==
  ASSUME NEW n \in Nat
  PROVE  (n \div TabWidth + 1) * TabWidth \in Nat
<1>1. TabWidth \in Nat /\ TabWidth > 0
  BY TerminalAssumption
<1>2. n \div TabWidth \in Int
  BY <1>1
<1>3. n < (n \div TabWidth + 1) * TabWidth
  BY <1>1, <1>2
<1>4. (n \div TabWidth + 1) * TabWidth \in Int
  BY <1>1, <1>2
<1> QED BY <1>3, <1>4

(* Text goes where the cursor is, on a row nobody shares.                  *)
LEMMA TextScreen ==
  ASSUME TypeOK, RowsNotShared, FeedText
  PROVE  ScreenKept /\ TextMayAppear
<1> USE TerminalAssumption
<1>1. ScreenOK
  BY DEF TypeOK
<1>2. CASE PutInLine
  <2>1. rows[row] \in Slices /\ cells[rows[row]] \in [ColIndex -> {Blank, Glyph}]
    BY <1>1 DEF ScreenOK
  <2>2. cells' \in [Slices -> [ColIndex -> {Blank, Glyph}]]
    BY <1>1, <1>2, <2>1, WrittenType DEF PutInLine, ScreenOK
  <2>3. col' \in 0..Cols /\ col' - 1 = col
    BY <1>1, <1>2 DEF PutInLine, ScreenOK
  <2>4. ScreenKept
    BY <1>1, <1>2, <2>2, <2>3 DEF PutInLine, ScreenKept, ScreenOK, RowsNotShared
  <2>5. ASSUME NEW r \in RowIndex, NEW c \in ColIndex,
               Shown(r, c) = Blank, Shown(r, c)' = Glyph
        PROVE  r = row /\ c = col
    <3>1. r = row
      <4>1. rows[r] = rows[row]
        BY <1>1, <1>2, <2>5 DEF PutInLine, ScreenOK, Shown
      <4> QED BY <4>1, <1>1 DEF RowsNotShared, ScreenOK
    <3>2. cells'[rows[row]] = Written(cells[rows[row]], {col})
      BY <1>1, <1>2, <2>1 DEF PutInLine, ScreenOK
    <3> QED BY <3>1, <3>2, <1>2, <2>1, <2>5, WrittenType DEF Shown, PutInLine
  <2> QED BY <1>2, <2>3, <2>4, <2>5 DEF TextMayAppear, PutInLine
<1>3. CASE PutWrapping
  <2>1. NewLine({0}) /\ col' = 1
    BY <1>3 DEF PutWrapping
  <2>2. ScreenKept
    BY <1>1, <2>1, NewLineScreen DEF ScreenKept, ScreenOK
  <2> QED BY <1>1, <2>1, <2>2, NewLineScreen DEF TextMayAppear
<1>4. CASE LineFeed
  <2>1. NewLine({}) /\ col' = col
    BY <1>4 DEF LineFeed
  <2>2. ScreenKept
    BY <1>1, <2>1, NewLineScreen DEF ScreenKept, ScreenOK
  <2> QED BY <1>1, <2>1, <2>2, NewLineScreen DEF TextMayAppear
<1>5. CASE CarriageReturn \/ Backspace \/ Escape
  BY <1>1, <1>5, CursorMoved
     DEF CarriageReturn, Backspace, Escape, cursorVars, ScreenOK
<1>6. CASE Tab
  <2>1. (col \div TabWidth + 1) * TabWidth \in Nat
    <3>1. col \in Nat
      BY <1>1 DEF ScreenOK
    <3> QED BY <3>1, TabStopNatural
  <2>2. col' \in 0..Cols
    BY <1>6, <2>1 DEF Tab, Least
  <2> QED BY <1>1, <1>6, <2>2, CursorMoved DEF Tab, ScreenOK
<1> QED BY <1>2, <1>3, <1>4, <1>5, <1>6 DEF FeedText

(* A movement of the cursor writes nothing.                                *)
LEMMA MoveScreen ==
  ASSUME TypeOK, RowsNotShared, NEW r, NEW c, MoveTo(r, c), r \in RowIndex, c \in 0..Cols
  PROVE  ScreenKept /\ TextMayAppear
BY CursorMoved DEF MoveTo, TypeOK

(* Each command of the parser.                                             *)
LEMMA CSIScreen ==
  ASSUME TypeOK, RowsNotShared, FeedCSI
  PROVE  ScreenKept /\ TextMayAppear
<1> USE TerminalAssumption DEF RowIndex
<1>1. /\ Param(1, 1) \in Nat /\ Param(2, 1) \in Nat
      /\ row \in RowIndex /\ col \in 0..Cols
  BY NumbersType DEF TypeOK, ScreenOK
<1>2. ASSUME UNCHANGED <<gridVars, cursorVars>> PROVE ScreenKept /\ TextMayAppear
  BY <1>2, CursorMoved DEF TypeOK, ScreenOK, cursorVars
<1>3. CASE (\E d \in Digits : Digit(d)) \/ Separator \/ OtherCommand
  BY <1>2, <1>3 DEF Digit, Separator, OtherCommand
<1>4. CASE CursorUp \/ CursorDown
  BY <1>1, <1>4, MoveScreen DEF CursorUp, CursorDown, Max0, Least
<1>5. CASE CursorForward \/ CursorBack
  BY <1>1, <1>5, MoveScreen DEF CursorForward, CursorBack, Max0, Least
<1>6. CASE CursorPosition
  BY <1>1, <1>6, MoveScreen DEF CursorPosition, Clamp, Least
<1>7. CASE EraseDisplay \/ EraseLine
  BY <1>7, EraseScreen
<1> QED BY <1>3, <1>4, <1>5, <1>6, <1>7 DEF FeedCSI

(* Each step.                                                              *)
LEMMA ScreenStep ==
  ASSUME TypeOK, RowsNotShared, [Next]_vars
  PROVE  ScreenKept /\ TextMayAppear
<1>1. ASSUME UNCHANGED <<gridVars, cursorVars>> PROVE ScreenKept /\ TextMayAppear
  BY <1>1, CursorMoved, TerminalAssumption DEF TypeOK, ScreenOK, cursorVars
<1>2. CASE FeedEscape
  BY <1>1, <1>2 DEF FeedEscape, OpenCSI, OpenOSC, DropEscape, Bell, Discard
<1>3. CASE UNCHANGED vars
  BY <1>1, <1>3 DEF vars
<1> QED BY <1>2, <1>3, TextScreen, CSIScreen DEF Next

-----------------------------------------------------------------------------
(* A command ends the sequence: its numbers are kept.                      *)
LEMMA CommandParser == ASSUME ParserOK, Command PROVE ParserOK'
<1>1. params' \in Seq(Nat)
  BY NumbersType DEF Command
<1> QED BY <1>1 DEF ParserOK, Command

(* Each step keeps the state of the parser.                                *)
LEMMA ParserStep == ASSUME TypeOK, [Next]_vars PROVE ParserOK'
<1> USE DEF ParserOK
<1>0. ParserOK
  BY DEF TypeOK
<1>1. CASE FeedText
  <2>1. Normal /\ mode' \in {"normal", "esc"}
    BY <1>1 DEF FeedText, PutInLine, PutWrapping, LineFeed, CarriageReturn,
                Backspace, Tab, Escape, Normal
  <2> QED BY <1>0, <2>1 DEF Normal, paramVars, historyVars
<1>2. CASE OpenCSI
  <2>1. params' \in Seq(Nat) /\ paramAccum' \in Nat
    BY <1>2 DEF OpenCSI
  <2>2. haveParam' \in BOOLEAN
    BY <1>2, Zenon DEF OpenCSI
  <2>3. typed' \in Seq(Seq(Digits)) /\ typed' # <<>>
    <3>1. << >> \in Seq(Digits)
      OBVIOUS
    <3>2. << << >> >> \in Seq(Seq(Digits)) /\ << << >> >> # << >>
      BY <3>1
    <3> QED BY <3>2, <1>2 DEF OpenCSI
  <2> QED BY <1>0, <1>2, <2>1, <2>2, <2>3 DEF OpenCSI
<1>3. CASE OpenOSC \/ DropEscape \/ Bell \/ \E seen \in 0..2 : Discard(seen)
  BY <1>0, <1>3 DEF OpenOSC, DropEscape, Bell, Discard, paramVars, historyVars
<1>4. ASSUME NEW d \in Digits, Digit(d) PROVE ParserOK'
  <2>1. d \in Nat /\ paramAccum' \in Nat
    BY <1>0, <1>4, TerminalAssumption DEF Digit
  <2>2. typed \in Seq(Seq(Digits)) /\ typed # <<>>
    BY <1>0, <1>4 DEF Digit
  <2>3. Len(typed) \in 1..Len(typed) /\ typed[Len(typed)] \in Seq(Digits)
    BY <2>2
  <2>4. Append(typed[Len(typed)], d) \in Seq(Digits)
    BY <2>3
  <2>5. typed' \in Seq(Seq(Digits)) /\ typed' # <<>>
    BY <1>4, <2>2, <2>3, <2>4 DEF Digit
  <2> QED BY <1>0, <1>4, <2>1, <2>5 DEF Digit
<1>5. CASE Separator
  <2>1. params' \in Seq(Nat)
    BY <1>0, <1>5 DEF Separator
  <2>2. typed' \in Seq(Seq(Digits)) /\ typed' # <<>>
    BY <1>0, <1>5 DEF Separator
  <2> QED BY <1>0, <1>5, <2>1, <2>2 DEF Separator
<1>6. CASE \/ CursorUp \/ CursorDown \/ CursorForward \/ CursorBack \/ CursorPosition
           \/ EraseDisplay \/ EraseLine \/ OtherCommand
  <2>1. Command
    BY <1>6 DEF CursorUp, CursorDown, CursorForward, CursorBack, CursorPosition,
                MoveTo, EraseDisplay, EraseLine, OtherCommand
  <2> QED BY <1>0, <2>1, CommandParser
<1>7. CASE UNCHANGED vars
  BY <1>0, <1>7 DEF vars, paramVars, historyVars
<1> QED
  BY <1>1, <1>2, <1>3, <1>4, <1>5, <1>6, <1>7 DEF Next, FeedEscape, FeedCSI

(* A fresh screen has a row of its own for each line.                      *)
LEMMA InitInv == Init => Inv
<1> SUFFICES ASSUME Init PROVE Inv
  OBVIOUS
<1>1. rows \in [RowIndex -> Slices] /\ RowsNotShared
  BY DEF Init, Injection, IsInjective, RowsNotShared
<1>2. cells \in [Slices -> [ColIndex -> {Blank, Glyph}]]
  BY DEF Init, BlankLine
<1>3. row \in RowIndex /\ col \in 0..Cols
  BY TerminalAssumption DEF Init, RowIndex
<1>4. ParserOK
  <2>1. params \in Seq(Nat) /\ typed \in Seq(Seq(Digits))
    BY DEF Init
  <2>2. paramAccum \in Nat /\ terminator \in 0..2
    BY DEF Init
  <2>3. haveParam \in BOOLEAN
    BY Zenon DEF Init
  <2> QED BY <2>1, <2>2, <2>3 DEF Init, ParserOK
<1> QED BY <1>1, <1>2, <1>3, <1>4 DEF Inv, TypeOK, ScreenOK

(* One byte keeps the invariant and puts text only where it may.           *)
LEMMA Step == Inv /\ [Next]_vars => Inv' /\ TextMayAppear
BY ScreenStep, ParserStep DEF Inv, TypeOK, ScreenKept

-----------------------------------------------------------------------------
(* The cursor stays in the grid or in the column after it, and every row   *)
(* of the grid is a line of cells, whatever bytes arrive as long as their  *)
(* numbers fit an int (Feed, put, newline, feedCSI).                       *)
THEOREM TerminalTypeCorrect == Spec => []TypeOK
BY InitInv, Step, PTL DEF Spec, Inv

(* Rows of the grid never share their cells (newline, resetGrid).          *)
THEOREM RowsNeverShared == Spec => []RowsNotShared
BY InitInv, Step, PTL DEF Spec, Inv

(* Text appears in a cell only at the cursor or by scrolling (put,         *)
(* newline): it follows from the rows not being shared.                    *)
THEOREM TextOnlyAtCursor == Spec => TextAppearsAtCursor
<1>1. Inv /\ [Next]_vars => [TextMayAppear]_vars
  BY Step
<1>2. Spec => [][TextMayAppear]_vars
  BY <1>1, InitInv, Step, PTL DEF Spec
<1> QED BY <1>2 DEF TextAppearsAtCursor, TextMayAppear

-----------------------------------------------------------------------------
(* Induction, and the folds of SequencesExt, which recur over sets of      *)
(* indices: what the numbers of a sequence and ServerView are made with.   *)

(* Every non-empty set of naturals has a least member.                     *)
LEMMA LeastNat ==
  ASSUME NEW T \in SUBSET Nat, T # {}
  PROVE  \E k \in T : \A j \in T : k <= j
<1>1. PICK R : R = OpToRel(<, Nat)
  OBVIOUS
<1>2. PICK k \in T : \A j \in T : <<j, k>> \notin R
  BY <1>1, NatLessThanWellFounded, WFMin
<1>3. ASSUME NEW j \in T PROVE k <= j
  <2>1. ~(j < k)
    BY <1>1, <1>2 DEF OpToRel
  <2> QED BY <2>1
<1> QED BY <1>3

(* A property of naturals, as the set of those that have it.               *)
LEMMA Induction ==
  ASSUME NEW S, 0 \in S, \A k \in Nat : k \in S => k + 1 \in S
  PROVE  Nat \subseteq S
<1> SUFFICES ASSUME Nat \ S # {} PROVE FALSE
  OBVIOUS
<1>1. PICK k \in Nat \ S : \A j \in Nat \ S : k <= j
  BY LeastNat
<1> QED BY <1>1

(* ... and a non-empty set of naturals with a bound has a greatest one.    *)
LEMMA Greatest ==
  ASSUME NEW n \in Nat, NEW t \in SUBSET (1..n), t # {}
  PROVE  \E z \in t : \A y \in t : z >= y
<1> DEFINE T == {k \in Nat : n - k \in t}
<1>1. PICK i \in t : TRUE
  OBVIOUS
<1>2. n - i \in Nat /\ n - (n - i) = i
  OBVIOUS
<1>3. PICK k \in T : \A j \in T : k <= j
  BY <1>2, LeastNat
<1>4. ASSUME NEW y \in t PROVE n - k >= y
  <2>1. n - y \in Nat /\ n - (n - y) = y
    OBVIOUS
  <2>2. k <= n - y
    BY <1>3, <2>1
  <2> QED BY <2>1, <2>2
<1> QED BY <1>4

(* The greatest of a set, as the folds take it.                            *)
Top(t) == CHOOSE x \in t : \A y \in t : x >= y

(* Taking the greatest index away leaves a smaller set of indices.         *)
LEMMA TopFacts ==
  ASSUME NEW n \in Nat
  PROVE  /\ \A t \in SUBSET (1..n) : t # {} => Top(t) \in t /\ t \ {Top(t)} \in SUBSET (1..n)
         /\ \A i \in 1..n : /\ 1..i \in SUBSET (1..n) /\ 1..i # {}
                            /\ Top(1..i) = i /\ (1..i) \ {i} = 1..(i-1)
<1>1. ASSUME NEW t \in SUBSET (1..n), t # {} PROVE Top(t) \in t /\ t \ {Top(t)} \in SUBSET (1..n)
  BY <1>1, Greatest DEF Top
<1>2. ASSUME NEW i \in 1..n
      PROVE  1..i \in SUBSET (1..n) /\ 1..i # {} /\ Top(1..i) = i /\ (1..i) \ {i} = 1..(i-1)
  <2>1. i \in 1..i /\ \A y \in 1..i : i >= y
    OBVIOUS
  <2>2. Top(1..i) \in 1..i /\ \A y \in 1..i : Top(1..i) >= y
    BY <2>1 DEF Top
  <2> QED BY <2>1, <2>2
<1> QED BY <1>1, <1>2

(* h[t] is what folding the elements of s with indices in t gives.         *)
Folds(h, F, base, s, n) ==
  \A t \in SUBSET (1..n) :
    h[t] = IF t = {} THEN base ELSE F[<<h[t \ {Top(t)}], s[Top(t)]>>]

(* The first n entries of s are in B.                                      *)
Entries(s, n, B) == \A i \in 1..n : s[i] \in B

(* The recursive function behind a fold exists: taking the greatest index  *)
(* away from a set of indices comes to an end.                             *)
LEMMA FoldDefined ==
  ASSUME NEW A, NEW B, NEW F \in [A \X B -> A], NEW base \in A, NEW n \in Nat,
         NEW s, Entries(s, n, B)
  PROVE  \E h \in [SUBSET (1..n) -> A] : Folds(h, F, base, s, n)
<1> DEFINE P(k) == k <= n => \E h \in [SUBSET (1..k) -> A] : Folds(h, F, base, s, k)
           S == {k \in Nat : P(k)}
<1>1. P(0)
  <2> DEFINE h == [t \in SUBSET (1..0) |-> base]
  <2>1. \A t \in SUBSET (1..0) : t = {}
    OBVIOUS
  <2>2. h \in [SUBSET (1..0) -> A] /\ Folds(h, F, base, s, 0)
    BY <2>1 DEF Folds
  <2> HIDE DEF h
  <2> QED BY <2>2
<1>2. ASSUME NEW k \in Nat, P(k) PROVE P(k + 1)
  <2> SUFFICES ASSUME k + 1 <= n PROVE \E h \in [SUBSET (1..k+1) -> A] : Folds(h, F, base, s, k + 1)
    OBVIOUS
  <2>1. PICK h \in [SUBSET (1..k) -> A] : Folds(h, F, base, s, k)
    <3>1. k <= n
      OBVIOUS
    <3> QED BY <1>2, <3>1
  <2> DEFINE g == [t \in SUBSET (1..k+1) |->
                     IF t \in SUBSET (1..k) THEN h[t] ELSE F[<<h[t \ {k+1}], s[k+1]>>]]
  <2>2. s[k+1] \in B
    BY DEF Entries
  <2>3. ASSUME NEW t \in SUBSET (1..k+1) PROVE t \ {k+1} \in SUBSET (1..k)
    OBVIOUS
  <2>4. g \in [SUBSET (1..k+1) -> A]
    <3> SUFFICES ASSUME NEW t \in SUBSET (1..k+1), t \notin SUBSET (1..k)
                 PROVE  F[<<h[t \ {k+1}], s[k+1]>>] \in A
      OBVIOUS
    <3>1. h[t \ {k+1}] \in A
      BY <2>3
    <3> QED BY <2>2, <3>1
  <2>5. ASSUME NEW t \in SUBSET (1..k+1)
        PROVE  g[t] = IF t = {} THEN base ELSE F[<<g[t \ {Top(t)}], s[Top(t)]>>]
    <3>1. CASE t = {}
      BY <2>1, <3>1 DEF Folds
    <3>2. CASE t # {} /\ t \in SUBSET (1..k)
      <4>1. h[t] = F[<<h[t \ {Top(t)}], s[Top(t)]>>]
        BY <2>1, <3>2 DEF Folds
      <4>2. t \ {Top(t)} \in SUBSET (1..k) /\ t \ {Top(t)} \in SUBSET (1..k+1)
        BY <3>2
      <4>3. g[t] = h[t] /\ g[t \ {Top(t)}] = h[t \ {Top(t)}]
        BY <3>2, <4>2
      <4> QED BY <3>2, <4>1, <4>3
    <3>3. CASE t # {} /\ t \notin SUBSET (1..k)
      <4>1. k + 1 \in t /\ \A y \in t : k + 1 >= y
        BY <3>3
      <4>2. Top(t) = k + 1
        <5>1. Top(t) \in t /\ \A y \in t : Top(t) >= y
          BY <4>1 DEF Top
        <5>2. Top(t) \in 1..k+1 /\ Top(t) >= k + 1
          BY <4>1, <5>1
        <5> QED BY <5>2
      <4>3. t \ {k+1} \in SUBSET (1..k) /\ t \ {k+1} \in SUBSET (1..k+1)
        BY <2>3
      <4>4. g[t] = F[<<h[t \ {k+1}], s[k+1]>>] /\ g[t \ {k+1}] = h[t \ {k+1}]
        BY <3>3, <4>3
      <4> QED BY <3>3, <4>2, <4>4
    <3> QED BY <3>1, <3>2, <3>3
  <2> HIDE DEF g
  <2>6. Folds(g, F, base, s, k + 1)
    BY <2>5 DEF Folds
  <2> QED BY <2>4, <2>6
<1>3. P(n)
  <2> HIDE DEF P
  <2>1. 0 \in S /\ \A k \in Nat : k \in S => k + 1 \in S
    BY <1>1, <1>2
  <2>2. Nat \subseteq S
    <3> HIDE DEF S
    <3> QED BY <2>1, Induction
  <2> QED BY <2>2
<1>4. n <= n
  OBVIOUS
<1> QED BY <1>3, <1>4, Zenon

-----------------------------------------------------------------------------
(* reading[i] is what the first i digits of s say.                         *)
Reads(reading, s) ==
  /\ reading \in [0..Len(s) -> Nat] /\ reading[0] = 0
  /\ \A i \in 1..Len(s) : reading[i] = 10 * reading[i-1] + s[i]

(* The value of a number is read digit by digit.                           *)
LEMMA ValueReads ==
  ASSUME NEW s \in Seq(Nat)
  PROVE  \E reading : Reads(reading, s) /\ Value(s) = reading[Len(s)]
<1> DEFINE n == Len(s)
           F == [q \in Nat \X Nat |-> 10 * q[1] + q[2]]
           Iterates(h) == h = [t \in SUBSET DOMAIN s |->
                                 IF t = {} THEN 0 ELSE 10 * h[t \ {Top(t)}] + s[Top(t)]]
           iter == CHOOSE h : Iterates(h)
<1>0. n \in Nat /\ DOMAIN s = 1..n /\ \A i \in 1..n : s[i] \in Nat
  OBVIOUS
<1>1. Value(s) = iter[DOMAIN s]
  BY Zenon DEF Value, FoldLeft, MapThenFoldSet, Max, Top
<1>2. Iterates(iter)
  <2>1. F \in [Nat \X Nat -> Nat]
    OBVIOUS
  <2>2. PICK h \in [SUBSET (1..n) -> Nat] : Folds(h, F, 0, s, n)
    <3> HIDE DEF F, n
    <3>1. n \in Nat /\ 0 \in Nat /\ Entries(s, n, Nat)
      BY <1>0 DEF Entries
    <3> QED BY <2>1, <3>1, FoldDefined
  <2>3. ASSUME NEW t \in SUBSET (1..n)
        PROVE  h[t] = IF t = {} THEN 0 ELSE 10 * h[t \ {Top(t)}] + s[Top(t)]
    <3>1. CASE t = {}
      BY <2>2, <3>1 DEF Folds
    <3>2. CASE t # {}
      <4> HIDE DEF n
      <4>1. Top(t) \in 1..n /\ t \ {Top(t)} \in SUBSET (1..n)
        BY <1>0, <3>2, TopFacts
      <4>2. h[t \ {Top(t)}] \in Nat /\ s[Top(t)] \in Nat
        BY <1>0, <2>2, <4>1
      <4>3. h[t] = F[<<h[t \ {Top(t)}], s[Top(t)]>>]
        BY <2>2, <3>2 DEF Folds
      <4> QED BY <3>2, <4>2, <4>3
    <3> QED BY <3>1, <3>2
  <2>4. Iterates(h)
    <3> HIDE DEF n
    <3> QED BY <1>0, <2>2, <2>3
  <2> HIDE DEF Iterates
  <2> QED BY <2>4
<1> HIDE DEF iter
<1> DEFINE reading == [i \in 0..n |-> iter[1..i]]
<1>3. reading[0] = 0
  BY <1>0, <1>2
<1>4. ASSUME NEW i \in 1..n PROVE reading[i] = 10 * reading[i-1] + s[i]
  <2> HIDE DEF n
  <2>1. 1..i \in SUBSET (1..n) /\ 1..i # {} /\ Top(1..i) = i /\ (1..i) \ {i} = 1..(i-1)
    BY <1>0, TopFacts
  <2>2. iter[1..i] = 10 * iter[(1..i) \ {Top(1..i)}] + s[Top(1..i)]
    BY <1>0, <1>2, <2>1
  <2>3. reading[i] = iter[1..i] /\ reading[i-1] = iter[1..(i-1)]
    BY <1>0
  <2> QED BY <2>1, <2>2, <2>3
<1>5. Value(s) = reading[n]
  BY <1>0, <1>1
<1> HIDE DEF reading
<1>6. \A i \in 0..n : reading[i] \in Nat
  <2> DEFINE S == {i \in Nat : i \in 0..n => reading[i] \in Nat}
  <2>1. 0 \in S
    BY <1>3
  <2>2. ASSUME NEW i \in Nat, i \in S PROVE i + 1 \in S
    <3> SUFFICES ASSUME i + 1 \in 0..n PROVE reading[i+1] \in Nat
      OBVIOUS
    <3> HIDE DEF n
    <3>1. i + 1 \in 1..n /\ (i + 1) - 1 = i /\ i \in 0..n /\ s[i+1] \in Nat
      BY <1>0
    <3>2. reading[i+1] = 10 * reading[i] + s[i+1] /\ reading[i] \in Nat
      BY <1>4, <2>2, <3>1
    <3> QED BY <3>1, <3>2
  <2>3. Nat \subseteq S
    <3> HIDE DEF S
    <3> QED BY <2>1, <2>2, Induction
  <2> QED BY <2>3
<1>7. reading \in [0..n -> Nat]
  <2>1. reading = [i \in 0..n |-> reading[i]]
    BY DEF reading
  <2> QED BY <1>6, <2>1
<1>8. Reads(reading, s)
  BY <1>3, <1>4, <1>7 DEF Reads
<1> QED BY <1>5, <1>8

-----------------------------------------------------------------------------
(* The numbers a command gets.                                             *)

(* The two ends of a number, and one more digit.                           *)
LEMMA ValueFacts ==
  /\ Value(<<>>) = 0
  /\ \A s \in Seq(Nat) : Value(s) \in Nat
  /\ \A s \in Seq(Nat), d \in Nat : Value(Append(s, d)) = 10 * Value(s) + d
<1>1. Value(<<>>) = 0
  <2>1. <<>> \in Seq(Nat) /\ Len(<<>>) = 0
    OBVIOUS
  <2>2. PICK r : Reads(r, <<>>) /\ Value(<<>>) = r[0]
    BY <2>1, ValueReads
  <2> QED BY <2>2 DEF Reads
<1>2. ASSUME NEW s \in Seq(Nat) PROVE Value(s) \in Nat
  <2>1. PICK r : Reads(r, s) /\ Value(s) = r[Len(s)]
    BY ValueReads
  <2> QED BY <2>1 DEF Reads
<1>3. ASSUME NEW s \in Seq(Nat), NEW d \in Nat PROVE Value(Append(s, d)) = 10 * Value(s) + d
  <2> DEFINE n == Len(s)
             u == Append(s, d)
  <2>0. n \in Nat /\ u \in Seq(Nat) /\ Len(u) = n + 1 /\ u[n+1] = d /\ \A i \in 1..n : u[i] = s[i]
    OBVIOUS
  <2>1. PICK r : Reads(r, s) /\ Value(s) = r[n]
    BY ValueReads
  <2>2. PICK q : Reads(q, u) /\ Value(u) = q[Len(u)]
    BY <2>0, ValueReads
  <2> HIDE DEF n, u
  <2>3. q[n] = r[n]
    <3> DEFINE P(i) == i <= n => q[i] = r[i]
               S == {i \in Nat : P(i)}
    <3>1. P(0)
      BY <2>1, <2>2 DEF Reads
    <3>2. ASSUME NEW i \in Nat, P(i) PROVE P(i + 1)
      <4> SUFFICES ASSUME i + 1 <= n PROVE q[i+1] = r[i+1]
        OBVIOUS
      <4>1. i + 1 \in 1..n /\ i + 1 \in 1..Len(u) /\ (i + 1) - 1 = i /\ q[i] = r[i]
        <5>1. i + 1 \in 1..n /\ i + 1 \in 1..Len(u) /\ (i + 1) - 1 = i /\ i <= n
          BY <2>0
        <5> QED BY <3>2, <5>1
      <4>2. q[i+1] = 10 * q[i] + u[i+1] /\ r[i+1] = 10 * r[i] + s[i+1]
        BY <2>1, <2>2, <4>1 DEF Reads, n
      <4>3. u[i+1] = s[i+1]
        BY <2>0, <4>1
      <4> QED BY <4>1, <4>2, <4>3
    <3> HIDE DEF P
    <3>3. 0 \in S /\ \A i \in Nat : i \in S => i + 1 \in S
      BY <3>1, <3>2
    <3>4. P(n)
      <4>1. Nat \subseteq S
        <5> HIDE DEF S
        <5> QED BY <3>3, Induction
      <4> QED BY <2>0, <4>1
    <3>5. n <= n
      BY <2>0
    <3> QED BY <3>4, <3>5, Zenon DEF P
  <2>4. q[n+1] = 10 * q[n] + d
    <3>1. n + 1 \in 1..Len(u) /\ (n + 1) - 1 = n
      BY <2>0
    <3> QED BY <2>0, <2>2, <3>1 DEF Reads
  <2>5. Value(u) = 10 * Value(s) + d
    BY <2>0, <2>1, <2>2, <2>3, <2>4
  <2> QED BY <2>5 DEF u
<1> QED BY <1>1, <1>2, <1>3

(* In a sequence, the parser has read every number but the last, and is    *)
(* reading the last one.                                                   *)
NumbersRead ==
  mode = "csi" =>
    /\ Len(typed) = Len(params) + 1
    /\ \A i \in 1..Len(params) : params[i] = Value(typed[i])
    /\ paramAccum = Value(typed[Len(typed)])
    /\ ~haveParam => typed[Len(typed)] = <<>>

(* Digits are naturals, and so is what a number of the sequence says.      *)
LEMMA TypedNumbers ==
  ASSUME ParserOK
  PROVE  \A i \in 1..Len(typed) : typed[i] \in Seq(Digits) /\ typed[i] \in Seq(Nat)
<1>1. Digits \subseteq Nat
  BY TerminalAssumption
<1>2. ASSUME NEW s \in Seq(Digits) PROVE s \in Seq(Nat)
  <2>1. PICK n \in Nat : s \in [1..n -> Digits]
    BY SeqDef
  <2>2. s \in [1..n -> Nat]
    BY <1>1, <2>1
  <2> QED BY <2>2, SeqDef
<1> QED BY <1>2 DEF ParserOK

(* Every byte fed to the interpreter keeps what it knows of the numbers.   *)
LEMMA NumbersReadStep ==
  ASSUME TypeOK, NumbersRead, [Next]_vars
  PROVE  NumbersRead'
<1>0. ParserOK
  BY DEF TypeOK
<1>1. CASE FeedText
  <2>1. mode' \in {"normal", "esc"}
    BY <1>1 DEF FeedText, PutInLine, PutWrapping, LineFeed, CarriageReturn,
                Backspace, Tab, Escape, Normal
  <2> QED BY <2>1 DEF NumbersRead
<1>2. CASE OpenCSI
  <2>1. /\ params' = <<>> /\ paramAccum' = 0 /\ typed' = << <<>> >>
    BY <1>2 DEF OpenCSI
  <2>2. Len(params') = 0 /\ Len(typed') = 1 /\ typed'[1] = <<>>
    BY <2>1
  <2> QED BY <2>1, <2>2, ValueFacts DEF NumbersRead
<1>3. CASE OpenOSC \/ DropEscape \/ Bell \/ \E seen \in 0..2 : Discard(seen)
  <2>1. mode' # "csi"
    BY <1>3 DEF OpenOSC, DropEscape, Bell, Discard
  <2> QED BY <2>1 DEF NumbersRead
<1>4. ASSUME NEW d \in Digits, Digit(d) PROVE NumbersRead'
  <2> DEFINE n == Len(typed)
             last == typed[n]
  <2>1. /\ mode = "csi" /\ paramAccum' = paramAccum * 10 + d /\ haveParam' = TRUE
        /\ typed' = [typed EXCEPT ![n] = Append(last, d)] /\ params' = params
    BY <1>4 DEF Digit
  <2>2. /\ params \in Seq(Nat) /\ typed \in Seq(Seq(Digits)) /\ n = Len(params) + 1
        /\ paramAccum = Value(last) /\ d \in Nat
        /\ \A i \in 1..Len(params) : params[i] = Value(typed[i])
    BY <1>0, <2>1, TerminalAssumption DEF ParserOK, NumbersRead
  <2>3. n \in 1..n /\ last \in Seq(Nat)
    BY <1>0, <2>2, TypedNumbers
  <2>4. Len(typed') = n /\ typed'[n] = Append(last, d) /\ \A i \in 1..Len(params) : typed'[i] = typed[i]
    BY <2>1, <2>2, <2>3
  <2>5. Value(Append(last, d)) = 10 * Value(last) + d /\ Value(last) \in Nat
    BY <2>2, <2>3, ValueFacts
  <2>6. paramAccum' = Value(typed'[Len(typed')])
    <3> HIDE DEF last, n
    <3> QED BY <2>1, <2>2, <2>4, <2>5
  <2> QED BY <2>1, <2>2, <2>4, <2>6 DEF NumbersRead
<1>5. CASE Separator
  <2>1. /\ mode = "csi" /\ params' = Append(params, paramAccum) /\ paramAccum' = 0
        /\ typed' = Append(typed, <<>>)
    BY <1>5 DEF Separator
  <2>2. /\ params \in Seq(Nat) /\ typed \in Seq(Seq(Digits)) /\ Len(typed) = Len(params) + 1
        /\ paramAccum = Value(typed[Len(typed)]) /\ paramAccum \in Nat
        /\ \A i \in 1..Len(params) : params[i] = Value(typed[i])
    BY <1>0, <2>1 DEF ParserOK, NumbersRead
  <2>3. /\ Len(typed') = Len(typed) + 1 /\ Len(params') = Len(params) + 1
        /\ typed'[Len(typed')] = <<>>
        /\ \A i \in 1..Len(typed) : typed'[i] = typed[i]
    BY <2>1, <2>2
  <2>4. ASSUME NEW i \in 1..Len(params') PROVE params'[i] = Value(typed'[i])
    <3>1. CASE i \in 1..Len(params)
      BY <2>1, <2>2, <2>3, <3>1
    <3>2. CASE i = Len(params) + 1
      BY <2>1, <2>2, <2>3, <3>2
    <3> QED BY <2>2, <2>3, <3>1, <3>2
  <2>5. paramAccum' = Value(typed'[Len(typed')])
    BY <2>1, <2>3, ValueFacts
  <2>6. Len(typed') = Len(params') + 1
    BY <2>2, <2>3
  <2> QED BY <2>3, <2>4, <2>5, <2>6 DEF NumbersRead
<1>6. CASE \/ CursorUp \/ CursorDown \/ CursorForward \/ CursorBack \/ CursorPosition
           \/ EraseDisplay \/ EraseLine \/ OtherCommand
  <2>1. mode' = "normal"
    BY <1>6 DEF CursorUp, CursorDown, CursorForward, CursorBack, CursorPosition,
                MoveTo, EraseDisplay, EraseLine, OtherCommand, Command
  <2> QED BY <2>1 DEF NumbersRead
<1>7. CASE UNCHANGED vars
  BY <1>7 DEF NumbersRead, vars, paramVars, historyVars
<1> QED
  BY <1>1, <1>2, <1>3, <1>4, <1>5, <1>6, <1>7 DEF Next, FeedEscape, FeedCSI

(* What was read is what the command is given.                             *)
LEMMA NumbersGiven == ASSUME TypeOK, NumbersRead PROVE NumbersReachTheCommand
<1> SUFFICES ASSUME mode = "csi"
             PROVE  /\ \A i \in 1..(MaxBytes + 2) : \A default \in {0, 1} :
                         LET n == IF i <= Len(typed) THEN Value(typed[i]) ELSE 0
                         IN  Param(i, default) = IF n = 0 THEN default ELSE n
                    /\ Numbers[1] = Value(typed[1])
  BY DEF NumbersReachTheCommand
<1> DEFINE k == Len(params)
<1>0. ParserOK
  BY DEF TypeOK
<1>1. /\ params \in Seq(Nat) /\ typed \in Seq(Seq(Digits)) /\ paramAccum \in Nat
      /\ k \in Nat /\ Len(typed) = k + 1
      /\ \A i \in 1..k : params[i] = Value(typed[i])
      /\ paramAccum = Value(typed[k + 1])
      /\ ~haveParam => typed[k + 1] = <<>>
  BY <1>0 DEF ParserOK, NumbersRead
<1>2. CASE haveParam \/ params = <<>>
  <2>1. Numbers = Append(params, paramAccum)
    BY <1>2 DEF Numbers
  <2>2. Len(Numbers) = k + 1 /\ \A i \in 1..k + 1 : Numbers[i] = Value(typed[i])
    BY <1>1, <2>1
  <2> HIDE DEF k
  <2>3. ASSUME NEW i \in 1..(MaxBytes + 2), NEW default \in {0, 1}
        PROVE  Param(i, default) = IF (IF i <= Len(typed) THEN Value(typed[i]) ELSE 0) = 0 THEN default
                                   ELSE (IF i <= Len(typed) THEN Value(typed[i]) ELSE 0)
    <3>1. CASE i <= k + 1
      <4>1. i \in 1..k + 1
        BY <1>1, <3>1, TerminalAssumption
      <4> QED BY <1>1, <2>2, <3>1, <4>1 DEF Param
    <3>2. CASE ~(i <= k + 1)
      BY <1>1, <2>2, <3>2, TerminalAssumption DEF Param
    <3> QED BY <3>1, <3>2
  <2> QED BY <1>1, <2>2, <2>3
<1>3. CASE ~haveParam /\ params # <<>>
  <2>1. Numbers = params /\ k > 0 /\ Value(typed[k + 1]) = 0
    BY <1>1, <1>3, ValueFacts DEF Numbers
  <2>2. Len(Numbers) = k /\ \A i \in 1..k : Numbers[i] = Value(typed[i])
    BY <1>1, <2>1
  <2> HIDE DEF k
  <2>3. ASSUME NEW i \in 1..(MaxBytes + 2), NEW default \in {0, 1}
        PROVE  Param(i, default) = IF (IF i <= Len(typed) THEN Value(typed[i]) ELSE 0) = 0 THEN default
                                   ELSE (IF i <= Len(typed) THEN Value(typed[i]) ELSE 0)
    <3>0. i \in Nat
      BY TerminalAssumption
    <3>1. CASE i <= k
      <4>1. i \in 1..k /\ i <= Len(typed) /\ ~(i > Len(Numbers))
        BY <1>1, <2>2, <3>0, <3>1
      <4> QED BY <2>2, <4>1 DEF Param
    <3>2. CASE i = k + 1
      BY <1>1, <2>1, <2>2, <3>2 DEF Param
    <3>3. CASE i > k + 1
      BY <1>1, <2>2, <3>0, <3>3 DEF Param
    <3> QED BY <1>1, <3>0, <3>1, <3>2, <3>3
  <2> QED BY <1>1, <2>1, <2>2, <2>3
<1> QED BY <1>2, <1>3

(* A command acts on the numbers that were written (feedCSI, finishCSI).   *)
THEOREM NumbersAlwaysReachTheCommand == Spec => []NumbersReachTheCommand
<1>1. Init => NumbersRead
  BY DEF Init, NumbersRead
<1>2. TypeOK /\ NumbersRead /\ [Next]_vars => NumbersRead'
  BY NumbersReadStep
<1>3. TypeOK /\ NumbersRead => NumbersReachTheCommand
  BY NumbersGiven
<1> QED BY <1>1, <1>2, <1>3, TerminalTypeCorrect, PTL DEF Spec

-----------------------------------------------------------------------------
(* Joining sequences.                                                      *)

(* flat[i] is the first i sequences of ss, one after the other.            *)
Joins(flat, ss, S) ==
  /\ flat \in [0..Len(ss) -> Seq(S)] /\ flat[0] = <<>>
  /\ \A i \in 1..Len(ss) : flat[i] = flat[i-1] \o ss[i]

(* FlattenSeq joins its sequences.                                         *)
LEMMA FlattenJoins ==
  ASSUME NEW S, NEW ss \in Seq(Seq(S))
  PROVE  \E flat : Joins(flat, ss, S) /\ FlattenSeq(ss) = flat[Len(ss)]
<1> DEFINE n == Len(ss)
           Solves(h, k) == h = [i \in 1..k |-> IF i = 1 THEN ss[i] ELSE h[i-1] \o ss[i]]
           flatten == CHOOSE h : Solves(h, n)
<1>0. n \in Nat /\ \A i \in 1..n : ss[i] \in Seq(S)
  OBVIOUS
<1>1. FlattenSeq(ss) = IF n = 0 THEN ss ELSE flatten[n]
  BY Zenon DEF FlattenSeq
<1>2. Solves(flatten, n)
  <2> DEFINE P(k) == \E h : Solves(h, k)
             T == {k \in Nat : P(k)}
  <2>1. P(0)
    <3>1. Solves([i \in 1..0 |-> <<>>], 0)
      OBVIOUS
    <3> HIDE DEF Solves
    <3> QED BY <3>1
  <2>2. ASSUME NEW k \in Nat, P(k) PROVE P(k + 1)
    <3>1. PICK h : Solves(h, k)
      BY <2>2
    <3> DEFINE g == [i \in 1..k+1 |-> IF i = k + 1 THEN IF i = 1 THEN ss[i] ELSE h[k] \o ss[i] ELSE h[i]]
    <3>2. ASSUME NEW i \in 1..k+1 PROVE g[i] = IF i = 1 THEN ss[i] ELSE g[i-1] \o ss[i]
      <4>1. CASE i = k + 1
        <5>1. CASE i = 1
          BY <4>1, <5>1
        <5>2. CASE i # 1
          <6>1. i - 1 = k /\ k \in 1..k+1 /\ k # k + 1
            BY <4>1, <5>2
          <6> QED BY <4>1, <5>2, <6>1
        <5> QED BY <5>1, <5>2
      <4>2. CASE i # k + 1
        <5>1. i \in 1..k /\ i - 1 # k + 1 /\ (i # 1 => i - 1 \in 1..k+1)
          BY <4>2
        <5>2. h[i] = IF i = 1 THEN ss[i] ELSE h[i-1] \o ss[i]
          BY <3>1, <5>1
        <5> QED BY <4>2, <5>1, <5>2
      <4> QED BY <4>1, <4>2
    <3>3. g = [i \in 1..k+1 |-> g[i]]
      OBVIOUS
    <3> HIDE DEF g
    <3>4. Solves(g, k + 1)
      BY <3>2, <3>3
    <3> HIDE DEF Solves
    <3> QED BY <3>4
  <2> HIDE DEF P
  <2>3. 0 \in T /\ \A k \in Nat : k \in T => k + 1 \in T
    BY <2>1, <2>2
  <2>4. P(n)
    <3>1. Nat \subseteq T
      <4> HIDE DEF T
      <4> QED BY <2>3, Induction
    <3> QED BY <1>0, <3>1
  <2> HIDE DEF Solves
  <2> QED BY <2>4 DEF P
<1> HIDE DEF flatten
<1> DEFINE flat == [i \in 0..n |-> IF i = 0 THEN <<>> ELSE flatten[i]]
<1>3. flat[0] = <<>>
  BY <1>0
<1>4. ASSUME NEW i \in 1..n PROVE flat[i] = flat[i-1] \o ss[i]
  <2> HIDE DEF n
  <2>1. flatten[i] = IF i = 1 THEN ss[i] ELSE flatten[i-1] \o ss[i]
    BY <1>2
  <2>2. i \in 0..n /\ i - 1 \in 0..n /\ i # 0 /\ (i - 1 = 0 <=> i = 1)
    BY <1>0
  <2>3. <<>> \o ss[i] = ss[i]
    BY <1>0
  <2>4. flat[i] = flatten[i] /\ flat[i-1] = IF i = 1 THEN <<>> ELSE flatten[i-1]
    BY <2>2
  <2> HIDE DEF flat
  <2> QED BY <2>1, <2>3, <2>4
<1>5. FlattenSeq(ss) = flat[n]
  <2>1. n = 0 => ss = <<>>
    OBVIOUS
  <2> HIDE DEF n
  <2> QED BY <1>0, <1>1, <2>1
<1> HIDE DEF flat
<1>6. \A i \in 0..n : flat[i] \in Seq(S)
  <2> DEFINE P(i) == i <= n => flat[i] \in Seq(S)
             T == {i \in Nat : P(i)}
  <2>1. P(0)
    BY <1>3
  <2>2. ASSUME NEW i \in Nat, P(i) PROVE P(i + 1)
    <3> SUFFICES ASSUME i + 1 <= n PROVE flat[i+1] \in Seq(S)
      OBVIOUS
    <3> HIDE DEF n
    <3>1. i + 1 \in 1..n /\ (i + 1) - 1 = i /\ flat[i] \in Seq(S)
      BY <1>0, <2>2
    <3>2. flat[i+1] = flat[i] \o ss[i+1] /\ ss[i+1] \in Seq(S)
      BY <1>0, <1>4, <3>1
    <3> QED BY <3>1, <3>2
  <2> HIDE DEF P
  <2>3. 0 \in T /\ \A i \in Nat : i \in T => i + 1 \in T
    BY <2>1, <2>2
  <2>4. Nat \subseteq T
    <3> HIDE DEF T
    <3> QED BY <2>3, Induction
  <2> QED BY <2>4 DEF P
<1>7. flat \in [0..n -> Seq(S)]
  <2>1. flat = [i \in 0..n |-> flat[i]]
    BY DEF flat
  <2> QED BY <1>6, <2>1
<1>8. Joins(flat, ss, S)
  BY <1>3, <1>4, <1>7 DEF Joins
<1> QED BY <1>5, <1>8

(* What FlattenSeq does to a sequence that ends with x.                    *)
LEMMA FlattenFacts ==
  ASSUME NEW S
  PROVE  /\ FlattenSeq(<<>>) = <<>>
         /\ \A ss \in Seq(Seq(S)) : FlattenSeq(ss) \in Seq(S)
         /\ \A ss \in Seq(Seq(S)), x \in Seq(S) : FlattenSeq(Append(ss, x)) = FlattenSeq(ss) \o x
<1>1. FlattenSeq(<<>>) = <<>>
  <2>1. Len(<<>>) = 0
    OBVIOUS
  <2> QED BY <2>1, Zenon DEF FlattenSeq
<1>2. ASSUME NEW ss \in Seq(Seq(S)) PROVE FlattenSeq(ss) \in Seq(S)
  <2>1. PICK r : Joins(r, ss, S) /\ FlattenSeq(ss) = r[Len(ss)]
    BY FlattenJoins
  <2> QED BY <2>1 DEF Joins
<1>3. ASSUME NEW ss \in Seq(Seq(S)), NEW x \in Seq(S)
      PROVE  FlattenSeq(Append(ss, x)) = FlattenSeq(ss) \o x
  <2> DEFINE n == Len(ss)
             u == Append(ss, x)
  <2>0. n \in Nat /\ u \in Seq(Seq(S)) /\ Len(u) = n + 1 /\ u[n+1] = x /\ \A i \in 1..n : u[i] = ss[i]
    OBVIOUS
  <2>1. PICK r : Joins(r, ss, S) /\ FlattenSeq(ss) = r[n]
    BY FlattenJoins
  <2>2. PICK q : Joins(q, u, S) /\ FlattenSeq(u) = q[Len(u)]
    BY <2>0, FlattenJoins
  <2> HIDE DEF n, u
  <2>3. q[n] = r[n]
    <3> DEFINE P(i) == i <= n => q[i] = r[i]
               T == {i \in Nat : P(i)}
    <3>1. P(0)
      BY <2>1, <2>2 DEF Joins
    <3>2. ASSUME NEW i \in Nat, P(i) PROVE P(i + 1)
      <4> SUFFICES ASSUME i + 1 <= n PROVE q[i+1] = r[i+1]
        OBVIOUS
      <4>1. i + 1 \in 1..n /\ i + 1 \in 1..Len(u) /\ (i + 1) - 1 = i /\ q[i] = r[i]
        <5>1. i + 1 \in 1..n /\ i + 1 \in 1..Len(u) /\ (i + 1) - 1 = i /\ i <= n
          BY <2>0
        <5> QED BY <3>2, <5>1
      <4>2. q[i+1] = q[i] \o u[i+1] /\ r[i+1] = r[i] \o ss[i+1]
        BY <2>1, <2>2, <4>1 DEF Joins, n
      <4>3. u[i+1] = ss[i+1]
        BY <2>0, <4>1
      <4> QED BY <4>1, <4>2, <4>3
    <3> HIDE DEF P
    <3>3. 0 \in T /\ \A i \in Nat : i \in T => i + 1 \in T
      BY <3>1, <3>2
    <3>4. P(n)
      <4>1. Nat \subseteq T
        <5> HIDE DEF T
        <5> QED BY <3>3, Induction
      <4> QED BY <2>0, <4>1
    <3>5. n <= n
      BY <2>0
    <3> QED BY <3>4, <3>5, Zenon DEF P
  <2>4. q[n+1] = q[n] \o x
    <3>1. n + 1 \in 1..Len(u) /\ (n + 1) - 1 = n
      BY <2>0
    <3> QED BY <2>0, <2>2, <3>1 DEF Joins
  <2>5. FlattenSeq(u) = FlattenSeq(ss) \o x
    BY <2>0, <2>1, <2>2, <2>3, <2>4
  <2> QED BY <2>5 DEF u
<1> QED BY <1>1, <1>2, <1>3

(* What the entries of s stand for, one after the other.                   *)
Cat(f, s) == FlattenSeq([i \in 1..Len(s) |-> f[s[i]]])

(* Cat of no entries, and of one entry more, ...                           *)
Accumulates(f, D, S) ==
  /\ Cat(f, <<>>) = <<>>
  /\ \A s \in Seq(D) : Cat(f, s) \in Seq(S)
  /\ \A s \in Seq(D), x \in D : Cat(f, Append(s, x)) = Cat(f, s) \o f[x]

(* ... for any function to sequences.                                      *)
LEMMA CatAppend ==
  ASSUME NEW D, NEW S, NEW f \in [D -> Seq(S)]
  PROVE  Accumulates(f, D, S)
<1>1. Cat(f, <<>>) = <<>>
  <2>1. [i \in 1..Len(<<>>) |-> f[<<>>[i]]] = <<>>
    OBVIOUS
  <2> QED BY <2>1, FlattenFacts DEF Cat
<1>2. ASSUME NEW s \in Seq(D) PROVE [i \in 1..Len(s) |-> f[s[i]]] \in Seq(Seq(S))
  <2>1. Len(s) \in Nat /\ [i \in 1..Len(s) |-> f[s[i]]] \in [1..Len(s) -> Seq(S)]
    OBVIOUS
  <2> QED BY <2>1, SeqDef
<1>3. ASSUME NEW s \in Seq(D) PROVE Cat(f, s) \in Seq(S)
  BY <1>2, FlattenFacts DEF Cat
<1>4. ASSUME NEW s \in Seq(D), NEW x \in D PROVE Cat(f, Append(s, x)) = Cat(f, s) \o f[x]
  <2> DEFINE u == Append(s, x)
             v == [i \in 1..Len(s) |-> f[s[i]]]
             w == [i \in 1..Len(u) |-> f[u[i]]]
  <2>1. v \in Seq(Seq(S)) /\ f[x] \in Seq(S) /\ Len(v) = Len(s)
    BY <1>2
  <2>2. w = Append(v, f[x])
    <3>1. u \in Seq(D) /\ Len(u) = Len(s) + 1 /\ Len(s) \in Nat
      OBVIOUS
    <3>2. w \in Seq(Seq(S)) /\ Append(v, f[x]) \in Seq(Seq(S))
      <4>1. w \in Seq(Seq(S))
        BY <1>2, <3>1
      <4> HIDE DEF v
      <4> QED BY <2>1, <4>1
    <3>3. Len(w) = Len(s) + 1 /\ Len(Append(v, f[x])) = Len(s) + 1
      BY <2>1, <3>1
    <3>4. ASSUME NEW i \in 1..Len(w) PROVE w[i] = Append(v, f[x])[i]
      <4>1. CASE i \in 1..Len(s)
        BY <2>1, <3>1, <4>1
      <4>2. CASE i = Len(s) + 1
        BY <2>1, <3>1, <4>2
      <4> QED BY <3>1, <3>3, <4>1, <4>2
    <3> HIDE DEF v, w
    <3> QED BY <3>2, <3>3, <3>4, SeqEqual
  <2>3. FlattenSeq(Append(v, f[x])) = FlattenSeq(v) \o f[x]
    <3> HIDE DEF v
    <3> QED BY <2>1, FlattenFacts
  <2> QED BY <2>2, <2>3 DEF Cat
<1> QED BY <1>1, <1>3, <1>4 DEF Accumulates

(* ... of two sequences, one after the other, ...                          *)
Joined(f, s, t) == Cat(f, s \o t) = Cat(f, s) \o Cat(f, t)

(* ... and of one entry.                                                   *)
Distributes(f, D) ==
  /\ \A x \in D : Cat(f, <<x>>) = f[x]
  /\ \A s \in Seq(D), t \in Seq(D) : Joined(f, s, t)

(* These too hold for any function to sequences.                           *)
LEMMA CatFacts ==
  ASSUME NEW D, NEW S, NEW f \in [D -> Seq(S)]
  PROVE  Distributes(f, D)
<1>0. /\ Cat(f, <<>>) = <<>>
      /\ \A s \in Seq(D) : Cat(f, s) \in Seq(S)
      /\ \A s \in Seq(D), x \in D : Cat(f, Append(s, x)) = Cat(f, s) \o f[x]
  BY CatAppend DEF Accumulates
<1>1. ASSUME NEW a \in Seq(S), NEW b \in Seq(S), NEW c \in Seq(S)
      PROVE  (a \o b) \o c = a \o (b \o c)
  BY ConcatAssociative
<1>2. ASSUME NEW x \in D PROVE Cat(f, <<x>>) = f[x]
  <2>1. <<x>> = Append(<<>>, x) /\ <<>> \in Seq(D) /\ <<>> \o f[x] = f[x]
    OBVIOUS
  <2>2. Cat(f, Append(<<>>, x)) = Cat(f, <<>>) \o f[x] /\ Cat(f, <<>>) = <<>>
    BY <1>0, <2>1
  <2> QED BY <2>1, <2>2
<1>3. ASSUME NEW s \in Seq(D), NEW t \in Seq(D) PROVE Cat(f, s \o t) = Cat(f, s) \o Cat(f, t)
  <2> DEFINE P(k) == \A u \in Seq(D) : Len(u) = k => Cat(f, s \o u) = Cat(f, s) \o Cat(f, u)
             T == {k \in Nat : P(k)}
  <2>1. P(0)
    <3> SUFFICES ASSUME NEW u \in Seq(D), Len(u) = 0 PROVE Cat(f, s \o u) = Cat(f, s) \o Cat(f, u)
      OBVIOUS
    <3>1. u = <<>> /\ s \o <<>> = s
      OBVIOUS
    <3>2. Cat(f, s) \o <<>> = Cat(f, s)
      BY <1>0, ConcatEmptySeq
    <3> QED BY <3>1, <1>0, <3>2
  <2>2. ASSUME NEW k \in Nat, P(k) PROVE P(k + 1)
    <3> SUFFICES ASSUME NEW u \in Seq(D), Len(u) = k + 1 PROVE Cat(f, s \o u) = Cat(f, s) \o Cat(f, u)
      OBVIOUS
    <3>1. PICK v \in Seq(D), x \in D : u = Append(v, x)
      <4>1. u # <<>>
        OBVIOUS
      <4> QED BY <4>1, SequenceEmptyOrAppend
    <3>2. Len(v) = k
      BY <3>1
    <3>3. Cat(f, s \o v) = Cat(f, s) \o Cat(f, v)
      BY <2>2, <3>2
    <3>4. s \o u = Append(s \o v, x) /\ s \o v \in Seq(D)
      BY <3>1
    <3>5. Cat(f, s \o u) = (Cat(f, s) \o Cat(f, v)) \o f[x]
      BY <1>0, <3>1, <3>3, <3>4
    <3>6. Cat(f, u) = Cat(f, v) \o f[x]
      BY <1>0, <3>1
    <3>7. (Cat(f, s) \o Cat(f, v)) \o f[x] = Cat(f, s) \o (Cat(f, v) \o f[x])
      <4>1. Cat(f, s) \in Seq(S) /\ Cat(f, v) \in Seq(S) /\ f[x] \in Seq(S)
        BY <1>0
      <4> QED BY <1>1, <4>1, Zenon
    <3> QED BY <3>5, <3>6, <3>7
  <2> HIDE DEF P
  <2>3. 0 \in T /\ \A k \in Nat : k \in T => k + 1 \in T
    BY <2>1, <2>2
  <2>4. Nat \subseteq T
    <3> HIDE DEF T
    <3> QED BY <2>3, Induction
  <2>5. P(Len(t))
    <3>1. Len(t) \in Nat
      OBVIOUS
    <3> QED BY <2>4, <3>1
  <2> QED BY <2>5 DEF P
<1> QED BY <1>2, <1>3 DEF Joined, Distributes

-----------------------------------------------------------------------------
(* The server's reading of the client's bytes.                             *)

(* The bytes, by what they mean to the protocol.                           *)
Alphabet == {"text", "IAC", "NOP", "DO", "DONT", "WILL", "WONT", "opt", "SB", "SE"}

(* What the server has made of some bytes,                                 *)
Views == [after : Seq(Alphabet), text : Seq(Alphabet), refused : Seq(Alphabet)]

(* ... before any byte,                                                    *)
NothingSeen == [after |-> <<>>, text |-> <<>>, refused |-> <<>>]

(* ... and with one more.                                                  *)
Sees(seen, b) ==
  IF seen.after = <<>> THEN IF b = "IAC" THEN [seen EXCEPT !.after = <<b>>]
                            ELSE [seen EXCEPT !.text = Append(@, b)]
  ELSE IF Len(seen.after) = 2
       THEN [seen EXCEPT !.after = <<>>, !.refused = Append(@, seen.after[2])]
  ELSE IF b = "IAC" THEN [seen EXCEPT !.after = <<>>, !.text = Append(@, b)]
  ELSE [seen EXCEPT !.after = Append(@, b)]

(* ServerView, of any bytes.                                               *)
Viewed(bytes) ==
  FoldLeft(LAMBDA seen, b :
             IF seen.after = <<>> THEN IF b = "IAC" THEN [seen EXCEPT !.after = <<b>>]
                                       ELSE [seen EXCEPT !.text = Append(@, b)]
             ELSE IF Len(seen.after) = 2
                  THEN [seen EXCEPT !.after = <<>>, !.refused = Append(@, seen.after[2])]
             ELSE IF b = "IAC" THEN [seen EXCEPT !.after = <<>>, !.text = Append(@, b)]
             ELSE [seen EXCEPT !.after = Append(@, b)],
           [after |-> <<>>, text |-> <<>>, refused |-> <<>>], bytes)

(* The server stays in a state of its reading.                             *)
LEMMA SeesType ==
  /\ NothingSeen \in Views
  /\ \A seen \in Views, b \in Alphabet : Sees(seen, b) \in Views
<1>1. NothingSeen \in Views
  BY DEF NothingSeen, Views
<1>2. ASSUME NEW seen \in Views, NEW b \in Alphabet PROVE Sees(seen, b) \in Views
  <2>1. /\ seen.after \in Seq(Alphabet) /\ seen.text \in Seq(Alphabet) /\ seen.refused \in Seq(Alphabet)
    BY DEF Views
  <2>2. /\ <<b>> \in Seq(Alphabet) /\ <<>> \in Seq(Alphabet)
        /\ Append(seen.text, b) \in Seq(Alphabet) /\ Append(seen.after, b) \in Seq(Alphabet)
    BY <2>1
  <2>3. Len(seen.after) = 2 => Append(seen.refused, seen.after[2]) \in Seq(Alphabet)
    BY <2>1
  <2> QED BY <2>1, <2>2, <2>3 DEF Sees, Views
<1> QED BY <1>1, <1>2

(* seen[i] is what the server makes of the first i bytes.                  *)
ViewsInTurn(seen, bytes) ==
  /\ seen \in [0..Len(bytes) -> Views] /\ seen[0] = NothingSeen
  /\ \A i \in 1..Len(bytes) : seen[i] = Sees(seen[i-1], bytes[i])

(* The fold that ServerView is looks at the bytes one by one.              *)
LEMMA ViewedStepwise ==
  ASSUME NEW bytes \in Seq(Alphabet)
  PROVE  \E seen : ViewsInTurn(seen, bytes) /\ Viewed(bytes) = seen[Len(bytes)]
<1> DEFINE n == Len(bytes)
           F == [q \in Views \X Alphabet |-> Sees(q[1], q[2])]
           Iterates(h) == h = [t \in SUBSET DOMAIN bytes |->
                                 IF t = {} THEN NothingSeen ELSE Sees(h[t \ {Top(t)}], bytes[Top(t)])]
           iter == CHOOSE h : Iterates(h)
<1>0. n \in Nat /\ DOMAIN bytes = 1..n /\ \A i \in 1..n : bytes[i] \in Alphabet
  OBVIOUS
<1>1. Viewed(bytes) = iter[DOMAIN bytes]
  BY Zenon DEF Viewed, FoldLeft, MapThenFoldSet, Max, Top, Sees, NothingSeen
<1>2. Iterates(iter)
  <2>1. F \in [Views \X Alphabet -> Views]
    BY SeesType
  <2>2. PICK h \in [SUBSET (1..n) -> Views] : Folds(h, F, NothingSeen, bytes, n)
    <3>1. n \in Nat /\ NothingSeen \in Views /\ Entries(bytes, n, Alphabet)
      BY <1>0, SeesType DEF Entries
    <3> HIDE DEF F, n
    <3> QED BY <2>1, <3>1, FoldDefined
  <2>3. ASSUME NEW t \in SUBSET (1..n)
        PROVE  h[t] = IF t = {} THEN NothingSeen ELSE Sees(h[t \ {Top(t)}], bytes[Top(t)])
    <3>1. CASE t = {}
      BY <2>2, <3>1 DEF Folds
    <3>2. CASE t # {}
      <4> HIDE DEF n
      <4>1. Top(t) \in 1..n /\ t \ {Top(t)} \in SUBSET (1..n)
        BY <1>0, <3>2, TopFacts
      <4>2. h[t \ {Top(t)}] \in Views /\ bytes[Top(t)] \in Alphabet
        BY <1>0, <2>2, <4>1
      <4>3. h[t] = F[<<h[t \ {Top(t)}], bytes[Top(t)]>>]
        BY <2>2, <3>2 DEF Folds
      <4> QED BY <3>2, <4>2, <4>3
    <3> QED BY <3>1, <3>2
  <2>4. Iterates(h)
    <3> HIDE DEF n
    <3> QED BY <1>0, <2>2, <2>3
  <2> HIDE DEF Iterates
  <2> QED BY <2>4
<1> HIDE DEF iter
<1> DEFINE seen == [i \in 0..n |-> iter[1..i]]
<1>3. seen[0] = NothingSeen
  BY <1>0, <1>2
<1>4. ASSUME NEW i \in 1..n PROVE seen[i] = Sees(seen[i-1], bytes[i])
  <2> HIDE DEF n
  <2>1. 1..i \in SUBSET (1..n) /\ 1..i # {} /\ Top(1..i) = i /\ (1..i) \ {i} = 1..(i-1)
    BY <1>0, TopFacts
  <2>2. iter[1..i] = Sees(iter[(1..i) \ {Top(1..i)}], bytes[Top(1..i)])
    BY <1>0, <1>2, <2>1
  <2>3. seen[i] = iter[1..i] /\ seen[i-1] = iter[1..(i-1)]
    BY <1>0
  <2> QED BY <2>1, <2>2, <2>3
<1>5. Viewed(bytes) = seen[n]
  BY <1>0, <1>1
<1> HIDE DEF seen
<1>6. \A i \in 0..n : seen[i] \in Views
  <2> DEFINE P(i) == i <= n => seen[i] \in Views
             S == {i \in Nat : P(i)}
  <2>1. P(0)
    BY <1>3, SeesType
  <2>2. ASSUME NEW i \in Nat, P(i) PROVE P(i + 1)
    <3> SUFFICES ASSUME i + 1 <= n PROVE seen[i+1] \in Views
      OBVIOUS
    <3> HIDE DEF n
    <3>1. i + 1 \in 1..n /\ (i + 1) - 1 = i /\ seen[i] \in Views
      BY <1>0, <2>2
    <3>2. seen[i+1] = Sees(seen[i], bytes[i+1]) /\ bytes[i+1] \in Alphabet
      BY <1>0, <1>4, <3>1
    <3> QED BY <3>1, <3>2, SeesType
  <2> HIDE DEF P
  <2>3. 0 \in S /\ \A i \in Nat : i \in S => i + 1 \in S
    BY <2>1, <2>2
  <2>4. Nat \subseteq S
    <3> HIDE DEF S
    <3> QED BY <2>3, Induction
  <2> QED BY <2>4 DEF P
<1>7. seen \in [0..n -> Views]
  <2>1. seen = [i \in 0..n |-> seen[i]]
    BY DEF seen
  <2> QED BY <1>6, <2>1
<1>8. ViewsInTurn(seen, bytes)
  BY <1>3, <1>4, <1>7 DEF ViewsInTurn
<1> QED BY <1>5, <1>8

(* What the server makes of no bytes, and of one byte more.                *)
LEMMA ViewedFacts ==
  /\ Viewed(<<>>) = NothingSeen
  /\ \A s \in Seq(Alphabet) : Viewed(s) \in Views
  /\ \A s \in Seq(Alphabet), b \in Alphabet : Viewed(Append(s, b)) = Sees(Viewed(s), b)
<1>1. Viewed(<<>>) = NothingSeen
  <2>1. <<>> \in Seq(Alphabet) /\ Len(<<>>) = 0
    OBVIOUS
  <2>2. PICK r : ViewsInTurn(r, <<>>) /\ Viewed(<<>>) = r[0]
    BY <2>1, ViewedStepwise
  <2> QED BY <2>2 DEF ViewsInTurn
<1>2. ASSUME NEW s \in Seq(Alphabet) PROVE Viewed(s) \in Views
  <2>1. PICK r : ViewsInTurn(r, s) /\ Viewed(s) = r[Len(s)]
    BY ViewedStepwise
  <2> QED BY <2>1 DEF ViewsInTurn
<1>3. ASSUME NEW s \in Seq(Alphabet), NEW d \in Alphabet PROVE Viewed(Append(s, d)) = Sees(Viewed(s), d)
  <2> DEFINE n == Len(s)
             u == Append(s, d)
  <2>0. n \in Nat /\ u \in Seq(Alphabet) /\ Len(u) = n + 1 /\ u[n+1] = d /\ \A i \in 1..n : u[i] = s[i]
    OBVIOUS
  <2>1. PICK r : ViewsInTurn(r, s) /\ Viewed(s) = r[n]
    BY ViewedStepwise
  <2>2. PICK q : ViewsInTurn(q, u) /\ Viewed(u) = q[Len(u)]
    BY <2>0, ViewedStepwise
  <2> HIDE DEF n, u
  <2>3. q[n] = r[n]
    <3> DEFINE P(i) == i <= n => q[i] = r[i]
               S == {i \in Nat : P(i)}
    <3>1. P(0)
      BY <2>1, <2>2 DEF ViewsInTurn
    <3>2. ASSUME NEW i \in Nat, P(i) PROVE P(i + 1)
      <4> SUFFICES ASSUME i + 1 <= n PROVE q[i+1] = r[i+1]
        OBVIOUS
      <4>1. i + 1 \in 1..n /\ i + 1 \in 1..Len(u) /\ (i + 1) - 1 = i /\ q[i] = r[i]
        <5>1. i + 1 \in 1..n /\ i + 1 \in 1..Len(u) /\ (i + 1) - 1 = i /\ i <= n
          BY <2>0
        <5> QED BY <3>2, <5>1
      <4>2. q[i+1] = Sees(q[i], u[i+1]) /\ r[i+1] = Sees(r[i], s[i+1])
        BY <2>1, <2>2, <4>1 DEF ViewsInTurn, n
      <4>3. u[i+1] = s[i+1]
        BY <2>0, <4>1
      <4> QED BY <4>1, <4>2, <4>3
    <3> HIDE DEF P
    <3>3. 0 \in S /\ \A i \in Nat : i \in S => i + 1 \in S
      BY <3>1, <3>2
    <3>4. P(n)
      <4>1. Nat \subseteq S
        <5> HIDE DEF S
        <5> QED BY <3>3, Induction
      <4> QED BY <2>0, <4>1
    <3>5. n <= n
      BY <2>0
    <3> QED BY <3>4, <3>5, Zenon DEF P
  <2>4. q[n+1] = Sees(q[n], d)
    <3>1. n + 1 \in 1..Len(u) /\ (n + 1) - 1 = n
      BY <2>0
    <3> QED BY <2>0, <2>2, <3>1 DEF ViewsInTurn
  <2>5. Viewed(u) = Sees(Viewed(s), d)
    BY <2>0, <2>1, <2>2, <2>3, <2>4
  <2> QED BY <2>5 DEF u
<1> QED BY <1>1, <1>2, <1>3

(* ServerView is what the server makes of all bytes written.               *)
LEMMA ServerViewed == ServerView = Viewed(out)
  BY Zenon DEF ServerView, Viewed

-----------------------------------------------------------------------------
(* What the server sends, and what Read makes of it.                       *)

(* The items, by name.                                                     *)
Items == {"text", "escaped", "command", "ask", "offer", "refuse", "sub"}

(* The text of each item, and the refusal it gets.                         *)
Texts == [item \in Items |-> TextOf(item)]
Refusals == [item \in Items |-> AnswerTo(item)]

(* What is left of the bytes of an item after the first k.                 *)
Cut(s, k) == SubSeq(s, k + 1, Len(s))

(* Where Read is after the first k bytes of an item of more than k.        *)
Where(item, k) ==
  IF k = 1 THEN "command" ELSE IF item # "sub" THEN "option"
  ELSE IF k \in {4, 8} THEN "subIAC" ELSE "sub"

(* Items are sequences of bytes, and so is what they stand for.            *)
LEMMA Encodings ==
  /\ Items = DOMAIN Encoded
  /\ Encoded \in [Items -> Seq(Alphabet)]
  /\ Texts \in [Items -> Seq(Alphabet)]
  /\ Refusals \in [Items -> Seq(Alphabet)]
<1>1. Items = DOMAIN Encoded
  BY DEF Items, Encoded
<1>2. ASSUME NEW item \in Items PROVE Encoded[item] \in Seq(Alphabet)
  <2>1. /\ "IAC" \in Alphabet /\ "NOP" \in Alphabet /\ "DO" \in Alphabet /\ "WILL" \in Alphabet
        /\ "WONT" \in Alphabet /\ "opt" \in Alphabet /\ "SB" \in Alphabet /\ "SE" \in Alphabet
        /\ "text" \in Alphabet
    BY DEF Alphabet
  <2>2. CASE item = "text"
    BY <2>1, <2>2 DEF Encoded
  <2>3. CASE item = "escaped"
    BY <2>1, <2>3 DEF Encoded
  <2>4. CASE item = "command"
    BY <2>1, <2>4 DEF Encoded
  <2>5. CASE item = "ask"
    BY <2>1, <2>5 DEF Encoded
  <2>6. CASE item = "offer"
    BY <2>1, <2>6 DEF Encoded
  <2>7. CASE item = "refuse"
    BY <2>1, <2>7 DEF Encoded
  <2>8. CASE item = "sub"
    BY <2>1, <2>8 DEF Encoded
  <2> QED BY <2>2, <2>3, <2>4, <2>5, <2>6, <2>7, <2>8 DEF Items
<1>3. Encoded \in [Items -> Seq(Alphabet)]
  <2>1. Encoded = [item \in DOMAIN Encoded |-> Encoded[item]]
    BY DEF Encoded
  <2> QED BY <1>1, <1>2, <2>1
<1>4. \A item \in Items : TextOf(item) \in Seq(Alphabet) /\ AnswerTo(item) \in Seq(Alphabet)
  <2>1. /\ <<"text">> \in Seq(Alphabet) /\ <<"IAC">> \in Seq(Alphabet) /\ <<"WONT">> \in Seq(Alphabet)
        /\ <<"DONT">> \in Seq(Alphabet) /\ <<>> \in Seq(Alphabet)
    BY DEF Alphabet
  <2> QED BY <2>1 DEF TextOf, AnswerTo
<1> QED BY <1>1, <1>3, <1>4 DEF Texts, Refusals

(* The bytes of the items, one by one.                                     *)
LEMMA EncodedBytes ==
  ASSUME NEW item \in Items
  PROVE  /\ Len(Encoded[item]) = IF item = "text" THEN 1 ELSE IF item \in {"escaped", "command"} THEN 2
                                 ELSE IF item = "sub" THEN 9 ELSE 3
         /\ Encoded[item][1] = IF item = "text" THEN "text" ELSE "IAC"
         /\ item # "text" =>
              Encoded[item][2] = IF item = "escaped" THEN "IAC" ELSE IF item = "command" THEN "NOP"
                                 ELSE IF item = "ask" THEN "DO" ELSE IF item = "offer" THEN "WILL"
                                 ELSE IF item = "refuse" THEN "WONT" ELSE "SB"
         /\ item \in {"ask", "offer", "refuse"} => Encoded[item][3] = "opt"
         /\ item = "sub" =>
              /\ Encoded[item][3] = "opt" /\ Encoded[item][4] = "IAC" /\ Encoded[item][5] = "IAC"
              /\ Encoded[item][6] = "SE" /\ Encoded[item][7] = "text" /\ Encoded[item][8] = "IAC"
              /\ Encoded[item][9] = "SE"
<1>2. CASE item = "text"
  BY <1>2 DEF Encoded
<1>3. CASE item = "escaped"
  BY <1>3 DEF Encoded
<1>4. CASE item = "command"
  BY <1>4 DEF Encoded
<1>5. CASE item = "ask"
  BY <1>5 DEF Encoded
<1>6. CASE item = "offer"
  BY <1>6 DEF Encoded
<1>7. CASE item = "refuse"
  BY <1>7 DEF Encoded
<1>8. CASE item = "sub"
  BY <1>8 DEF Encoded
<1> QED BY <1>2, <1>3, <1>4, <1>5, <1>6, <1>7, <1>8 DEF Items

(* The bytes at hand and those to come are what is left of s, and more, ...*)
Follows(in, later, s, k, more) == in \o later = Cut(s, k) \o more

(* ... and when it is read, the rest of what is left follows.              *)
LEMMA NextOf ==
  ASSUME NEW S, NEW s \in Seq(S), NEW k \in Nat, k < Len(s),
         NEW in \in Seq(S), in # <<>>, NEW later \in Seq(S), NEW more \in Seq(S),
         Follows(in, later, s, k, more)
  PROVE  /\ Head(in) = s[k+1] /\ Tail(in) \in Seq(S)
         /\ Follows(Tail(in), later, s, k + 1, more)
<1>0. Len(s) \in Nat /\ k + 1 \in 1..Len(s)
  OBVIOUS
<1>1. /\ Cut(s, k) \in Seq(S) /\ Len(Cut(s, k)) = Len(s) - k
      /\ \A i \in 1..Len(s) - k : Cut(s, k)[i] = s[k+i]
  BY <1>0 DEF Cut
<1>2. /\ Cut(s, k + 1) \in Seq(S) /\ Len(Cut(s, k + 1)) = Len(s) - k - 1
      /\ \A i \in 1..Len(s) - k - 1 : Cut(s, k + 1)[i] = s[k+1+i]
  BY <1>0 DEF Cut
<1>3. Len(in) \in Nat \ {0} /\ Head(in) = in[1] /\ Tail(in) \in Seq(S) /\ Len(Tail(in)) = Len(in) - 1
      /\ \A i \in 1..Len(in) - 1 : Tail(in)[i] = in[i+1]
  OBVIOUS
<1>4. Len(in) + Len(later) = Len(s) - k + Len(more)
  <2>1. Len(in \o later) = Len(in) + Len(later) /\ Len(Cut(s, k) \o more) = Len(s) - k + Len(more)
    BY <1>1, ConcatProperties
  <2> QED BY <2>1 DEF Follows
<1>5. ASSUME NEW i \in 1..Len(in) + Len(later)
      PROVE  (IF i <= Len(in) THEN in[i] ELSE later[i - Len(in)])
               = IF i <= Len(s) - k THEN s[k+i] ELSE more[i - (Len(s) - k)]
  <2>1. (in \o later)[i] = IF i <= Len(in) THEN in[i] ELSE later[i - Len(in)]
    BY ConcatProperties
  <2>2. (Cut(s, k) \o more)[i] = IF i <= Len(s) - k THEN Cut(s, k)[i] ELSE more[i - (Len(s) - k)]
    BY <1>1, <1>4, ConcatProperties
  <2>3. i <= Len(s) - k => i \in 1..Len(s) - k
    BY <1>0
  <2> QED BY <1>1, <2>1, <2>2, <2>3 DEF Follows
<1>6. Head(in) = s[k+1]
  <2>1. 1 \in 1..Len(in) + Len(later) /\ 1 <= Len(in) /\ 1 <= Len(s) - k
    BY <1>0, <1>3
  <2> QED BY <1>3, <1>5, <2>1
<1>7. Tail(in) \o later = Cut(s, k + 1) \o more
  <2> DEFINE a == Tail(in) \o later
             b == Cut(s, k + 1) \o more
  <2>1. /\ a \in Seq(S) /\ Len(a) = Len(in) - 1 + Len(later)
        /\ \A i \in 1..Len(a) : a[i] = IF i <= Len(in) - 1 THEN Tail(in)[i] ELSE later[i - (Len(in) - 1)]
    BY <1>3, ConcatProperties
  <2>2. /\ b \in Seq(S) /\ Len(b) = Len(s) - k - 1 + Len(more)
        /\ \A i \in 1..Len(b) : b[i] = IF i <= Len(s) - k - 1 THEN Cut(s, k + 1)[i]
                                       ELSE more[i - (Len(s) - k - 1)]
    <3> DEFINE c == Cut(s, k + 1)
    <3>1. c \in Seq(S) /\ Len(c) = Len(s) - k - 1
      BY <1>2
    <3> HIDE DEF c
    <3>2. /\ c \o more \in Seq(S) /\ Len(c \o more) = Len(c) + Len(more)
          /\ \A i \in 1..Len(c) + Len(more) :
               (c \o more)[i] = IF i <= Len(c) THEN c[i] ELSE more[i - Len(c)]
      BY <3>1, ConcatProperties
    <3>3. /\ c \o more \in Seq(S) /\ Len(c \o more) = Len(s) - k - 1 + Len(more)
          /\ \A i \in 1..Len(c \o more) :
               (c \o more)[i] = IF i <= Len(s) - k - 1 THEN c[i] ELSE more[i - (Len(s) - k - 1)]
      BY <3>1, <3>2
    <3> QED BY <3>3 DEF c
  <2> HIDE DEF a, b
  <2>3. Len(a) = Len(b)
    BY <1>0, <1>3, <1>4, <2>1, <2>2
  <2>4. ASSUME NEW i \in 1..Len(a) PROVE a[i] = b[i]
    <3>1. i + 1 \in 1..Len(in) + Len(later)
      BY <1>3, <2>1
    <3>2. a[i] = IF i + 1 <= Len(in) THEN in[i+1] ELSE later[i + 1 - Len(in)]
      BY <1>3, <2>1
    <3>3. b[i] = IF i + 1 <= Len(s) - k THEN s[k+(i+1)] ELSE more[i + 1 - (Len(s) - k)]
      <4>1. i \in 1..Len(b) /\ (i <= Len(s) - k - 1 <=> i + 1 <= Len(s) - k)
            /\ i - (Len(s) - k - 1) = i + 1 - (Len(s) - k) /\ k + 1 + i = k + (i + 1) /\ i \in Nat /\ i >= 1
        <5>1. i \in Nat /\ i \in 1..Len(b) /\ Len(s) \in Nat
          BY <1>0, <2>1, <2>3
        <5> QED BY <5>1
      <4>2. i <= Len(s) - k - 1 => i \in 1..Len(s) - k - 1
        BY <1>0, <4>1
      <4>3. i <= Len(s) - k - 1 => Cut(s, k + 1)[i] = s[k+1+i]
        BY <1>2, <4>2
      <4>4. b[i] = IF i <= Len(s) - k - 1 THEN Cut(s, k + 1)[i] ELSE more[i - (Len(s) - k - 1)]
        BY <2>2, <4>1
      <4> QED BY <4>1, <4>3, <4>4
    <3> DEFINE j == i + 1
    <3>4. j \in 1..Len(in) + Len(later)
      BY <3>1
    <3> HIDE DEF j
    <3> DEFINE x == IF j <= Len(in) THEN in[j] ELSE later[j - Len(in)]
               y == IF j <= Len(s) - k THEN s[k+j] ELSE more[j - (Len(s) - k)]
    <3>5. x = y
      BY <1>5, <3>4
    <3>6. a[i] = x /\ b[i] = y
      BY <3>2, <3>3 DEF j
    <3> HIDE DEF x, y
    <3> QED BY <3>5, <3>6
  <2>5. a = b
    BY <2>1, <2>2, <2>3, <2>4, SeqEqual
  <2> QED BY <2>5 DEF a, b
<1> QED BY <1>3, <1>6, <1>7 DEF Follows

(* What is left of an item is all of it, some of it, or nothing.           *)
LEMMA CutFacts ==
  ASSUME NEW S, NEW s \in Seq(S)
  PROVE  /\ Cut(s, 0) = s
         /\ \A more \in Seq(S) : Cut(s, Len(s)) \o more = more
         /\ \A k \in Nat, more \in Seq(S) : k < Len(s) => Cut(s, k) \in Seq(S) /\ Cut(s, k) \o more # <<>>
<1>1. Cut(s, 0) = s
  <2>1. 0 + 1 = 1
    OBVIOUS
  <2> QED BY <2>1, SubSeqFull DEF Cut
<1>2. ASSUME NEW more \in Seq(S) PROVE Cut(s, Len(s)) \o more = more
  <2>1. Cut(s, Len(s)) = <<>>
    BY SubSeqEmpty DEF Cut
  <2> QED BY <2>1, ConcatEmptySeq
<1>3. ASSUME NEW k \in Nat, NEW more \in Seq(S), k < Len(s)
      PROVE  Cut(s, k) \in Seq(S) /\ Cut(s, k) \o more # <<>>
  <2>1. Cut(s, k) \in Seq(S) /\ Len(Cut(s, k)) > 0
    BY <1>3 DEF Cut
  <2>2. Len(Cut(s, k) \o more) > 0
    BY <2>1
  <2> QED BY <2>1, <2>2
<1> QED BY <1>1, <1>2, <1>3

(* Each, of the two functions of items the properties use.                 *)
LEMMA EachOf ==
  ASSUME NEW s \in Seq(Items)
  PROVE  Each(TextOf, s) = Cat(Texts, s) /\ Each(AnswerTo, s) = Cat(Refusals, s)
<1>1. \A i \in 1..Len(s) : s[i] \in Items
  OBVIOUS
<1>2. [i \in 1..Len(s) |-> TextOf(s[i])] = [i \in 1..Len(s) |-> Texts[s[i]]]
  BY <1>1 DEF Texts
<1>3. [i \in 1..Len(s) |-> AnswerTo(s[i])] = [i \in 1..Len(s) |-> Refusals[s[i]]]
  BY <1>1 DEF Refusals
<1> QED BY <1>2, <1>3, Zenon DEF Each, Cat

(* The bytes of some of the items.                                         *)
LEMMA EachEncoded ==
  ASSUME NEW s \in Seq(Items)
  PROVE  Each(LAMBDA item : Encoded[item], s) = Cat(Encoded, s)
BY DEF Each, Cat

-----------------------------------------------------------------------------
(* What the client writes.                                                 *)

(* What the server has made of the client's bytes, field by field.         *)
Seen(after, text, refused) == [after |-> after, text |-> text, refused |-> refused]

(* The second byte of three.                                               *)
LEMMA SecondByte ==
  ASSUME NEW b \in Alphabet
  PROVE  Append(<<"IAC">>, b) = <<"IAC", b>>
<1>1. "IAC" \in Alphabet
  BY DEF Alphabet
<1>2. /\ <<"IAC", b>> \in Seq(Alphabet) /\ Len(<<"IAC", b>>) = 2
      /\ <<"IAC", b>>[1] = "IAC" /\ <<"IAC", b>>[2] = b
  BY <1>1
<1>3. /\ Append(<<"IAC">>, b) \in Seq(Alphabet) /\ Len(Append(<<"IAC">>, b)) = 2
      /\ Append(<<"IAC">>, b)[1] = "IAC" /\ Append(<<"IAC">>, b)[2] = b
  BY <1>1
<1> DEFINE q == Append(<<"IAC">>, b)
           z == <<"IAC", b>>
<1> HIDE DEF q, z
<1>4. q \in Seq(Alphabet) /\ z \in Seq(Alphabet) /\ Len(q) = Len(z)
      /\ \A i \in 1..Len(q) : q[i] = z[i]
  <2>1. Len(q) = 2 /\ Len(z) = 2 /\ q[1] = z[1] /\ q[2] = z[2]
    BY <1>2, <1>3 DEF q, z
  <2>2. \A i \in 1..2 : i = 1 \/ i = 2
    OBVIOUS
  <2> QED BY <1>2, <1>3, <2>1, <2>2 DEF q, z
<1>5. q = z
  BY <1>4, SeqEqual
<1> QED BY <1>5 DEF q, z

(* One more byte, in each of the situations the server can be in.          *)
LEMMA SeesFacts ==
  ASSUME NEW text, NEW refused, NEW b \in Alphabet
  PROVE  /\ b # "IAC" => Sees(Seen(<<>>, text, refused), b) = Seen(<<>>, Append(text, b), refused)
         /\ Sees(Seen(<<>>, text, refused), "IAC") = Seen(<<"IAC">>, text, refused)
         /\ Sees(Seen(<<"IAC">>, text, refused), "IAC") = Seen(<<>>, Append(text, "IAC"), refused)
<1>1. b # "IAC" => Sees(Seen(<<>>, text, refused), b) = Seen(<<>>, Append(text, b), refused)
  BY DEF Sees, Seen
<1>2. Sees(Seen(<<>>, text, refused), "IAC") = Seen(<<"IAC">>, text, refused)
  BY DEF Sees, Seen
<1>3. Len(<<"IAC">>) # 2 /\ <<"IAC">> # <<>>
  OBVIOUS
<1>4. Sees(Seen(<<"IAC">>, text, refused), "IAC") = Seen(<<>>, Append(text, "IAC"), refused)
  BY <1>3 DEF Sees, Seen
<1> QED BY <1>1, <1>2, <1>4

(* The server has understood the client's bytes, and nothing is pending.   *)
Heard(bytes, text, refused) == Viewed(bytes) = Seen(<<>>, text, refused)

(* A plain byte, an escaped IAC and a reply, as the server reads them.     *)
LEMMA ViewedMessages ==
  ASSUME NEW bytes \in Seq(Alphabet), NEW text \in Seq(Alphabet), NEW refused \in Seq(Alphabet),
         Viewed(bytes) = Seen(<<>>, text, refused)
  PROVE  /\ \A b \in Alphabet \ {"IAC"} :
              /\ bytes \o <<b>> \in Seq(Alphabet)
              /\ Viewed(bytes \o <<b>>) = Seen(<<>>, Append(text, b), refused)
         /\ bytes \o <<"IAC", "IAC">> \in Seq(Alphabet)
         /\ Viewed(bytes \o <<"IAC", "IAC">>) = Seen(<<>>, Append(text, "IAC"), refused)
         /\ \A r \in Alphabet \ {"IAC"}, b \in Alphabet :
              /\ bytes \o <<"IAC", r, b>> \in Seq(Alphabet)
              /\ Viewed(bytes \o <<"IAC", r, b>>) = Seen(<<>>, text, Append(refused, r))
<1> DEFINE one == Append(bytes, "IAC")
<1>0. "IAC" \in Alphabet
  BY DEF Alphabet
<1>1. ASSUME NEW s \in Seq(Alphabet), NEW b \in Alphabet
      PROVE  Append(s, b) \in Seq(Alphabet) /\ Viewed(Append(s, b)) = Sees(Viewed(s), b)
  BY ViewedFacts
<1>a. Sees(Seen(<<>>, text, refused), "IAC") = Seen(<<"IAC">>, text, refused)
  BY <1>0, SeesFacts
<1>b. Sees(Seen(<<"IAC">>, text, refused), "IAC") = Seen(<<>>, Append(text, "IAC"), refused)
  BY <1>0, SeesFacts
<1>2. one \in Seq(Alphabet) /\ Viewed(one) = Seen(<<"IAC">>, text, refused)
  BY <1>0, <1>1, <1>a
<1>3. ASSUME NEW b \in Alphabet \ {"IAC"}
      PROVE  /\ bytes \o <<b>> \in Seq(Alphabet)
             /\ Viewed(bytes \o <<b>>) = Seen(<<>>, Append(text, b), refused)
  <2>1. bytes \o <<b>> = Append(bytes, b)
    BY AppendIsConcat
  <2>2. Sees(Seen(<<>>, text, refused), b) = Seen(<<>>, Append(text, b), refused)
    BY SeesFacts
  <2>3. Append(bytes, b) \in Seq(Alphabet) /\ Viewed(Append(bytes, b)) = Sees(Viewed(bytes), b)
    BY <1>1
  <2> QED BY <2>1, <2>2, <2>3
<1>4. /\ bytes \o <<"IAC", "IAC">> \in Seq(Alphabet)
      /\ Viewed(bytes \o <<"IAC", "IAC">>) = Seen(<<>>, Append(text, "IAC"), refused)
  <2>1. bytes \o <<"IAC", "IAC">> = Append(one, "IAC")
    BY <1>0
  <2> HIDE DEF one
  <2>2. Append(one, "IAC") \in Seq(Alphabet) /\ Viewed(Append(one, "IAC")) = Sees(Viewed(one), "IAC")
    BY <1>0, <1>1, <1>2
  <2> QED BY <1>2, <1>b, <2>1, <2>2
<1>5. ASSUME NEW r \in Alphabet \ {"IAC"}, NEW b \in Alphabet
      PROVE  /\ bytes \o <<"IAC", r, b>> \in Seq(Alphabet)
             /\ Viewed(bytes \o <<"IAC", r, b>>) = Seen(<<>>, text, Append(refused, r))
  <2> DEFINE two == Append(one, r)
  <2>1. bytes \o <<"IAC", r, b>> = Append(two, b)
    BY <1>0
  <2> HIDE DEF one
  <2>2. two \in Seq(Alphabet) /\ Viewed(two) = Seen(<<"IAC", r>>, text, refused)
    <3>0. r \in Alphabet /\ r # "IAC"
      OBVIOUS
    <3>1. Sees(Seen(<<"IAC">>, text, refused), r) = Seen(<<"IAC", r>>, text, refused)
      <4>1. Append(<<"IAC">>, r) = <<"IAC", r>>
        BY <3>0, SecondByte
      <4>2. Len(<<"IAC">>) # 2 /\ <<"IAC">> # <<>>
        OBVIOUS
      <4> QED BY <3>0, <4>1, <4>2 DEF Sees, Seen
    <3>2. Append(one, r) \in Seq(Alphabet) /\ Viewed(Append(one, r)) = Sees(Viewed(one), r)
      BY <1>1, <1>2
    <3> QED BY <1>2, <3>1, <3>2
  <2> HIDE DEF two
  <2>3. Append(two, b) \in Seq(Alphabet) /\ Viewed(Append(two, b)) = Sees(Viewed(two), b)
    BY <1>1, <2>2
  <2>4. Sees(Seen(<<"IAC", r>>, text, refused), b) = Seen(<<>>, text, Append(refused, r))
    <3>1. Len(<<"IAC", r>>) = 2 /\ <<"IAC", r>> # <<>> /\ <<"IAC", r>>[2] = r
      OBVIOUS
    <3> QED BY <3>1 DEF Sees, Seen
  <2> QED BY <2>1, <2>2, <2>3, <2>4
<1> QED BY <1>3, <1>4, <1>5

(* A byte as Write sends it.                                               *)
Escapes == [b \in Alphabet |-> IF b = "IAC" THEN <<"IAC", "IAC">> ELSE <<b>>]

(* Escaped, as the joining of what its bytes are sent as.                  *)
LEMMA EscapedBytes ==
  /\ Escapes \in [Alphabet -> Seq(Alphabet)]
  /\ \A input \in Seq(Alphabet) : Escaped(input) = Cat(Escapes, input)
<1>1. \A b \in Alphabet : <<"IAC", "IAC">> \in Seq(Alphabet) /\ <<b>> \in Seq(Alphabet)
  BY DEF Alphabet
<1>2. Escapes \in [Alphabet -> Seq(Alphabet)]
  BY <1>1 DEF Escapes
<1>3. ASSUME NEW input \in Seq(Alphabet) PROVE Escaped(input) = Cat(Escapes, input)
  <2>1. [i \in 1..Len(input) |-> IF input[i] = "IAC" THEN <<"IAC", "IAC">> ELSE <<input[i]>>]
          = [i \in 1..Len(input) |-> Escapes[input[i]]]
    BY DEF Escapes
  <2> QED BY <2>1, Zenon DEF Escaped, Cat
<1> QED BY <1>2, <1>3

(* Concatenation, of bytes and of items.                                   *)
Associates(a, b, c) == (a \o b) \o c = a \o (b \o c)

(* Joining in either order comes to the same.                              *)
LEMMA Associative ==
  ASSUME NEW S
  PROVE  \A a \in Seq(S), b \in Seq(S), c \in Seq(S) : Associates(a, b, c)
BY ConcatAssociative DEF Associates

(* An input arrives as it was written, whatever it holds.                  *)
LEMMA InputUnderstood ==
  ASSUME NEW bytes \in Seq(Alphabet), NEW text \in Seq(Alphabet), NEW refused \in Seq(Alphabet),
         Heard(bytes, text, refused), NEW input \in Seq(Alphabet)
  PROVE  /\ bytes \o Escaped(input) \in Seq(Alphabet)
         /\ Heard(bytes \o Escaped(input), text \o input, refused)
<1> DEFINE Understood(u) ==
             /\ bytes \o Cat(Escapes, u) \in Seq(Alphabet)
             /\ Heard(bytes \o Cat(Escapes, u), text \o u, refused)
           P(k) == \A u \in Seq(Alphabet) : Len(u) = k => Understood(u)
           T == {k \in Nat : P(k)}
<1>0. /\ Cat(Escapes, <<>>) = <<>>
      /\ \A s \in Seq(Alphabet) : Cat(Escapes, s) \in Seq(Alphabet)
      /\ \A s \in Seq(Alphabet), x \in Alphabet : Cat(Escapes, Append(s, x)) = Cat(Escapes, s) \o Escapes[x]
  <2>1. Escapes \in [Alphabet -> Seq(Alphabet)]
    BY EscapedBytes
  <2>2. Accumulates(Escapes, Alphabet, Alphabet)
    BY <2>1, CatAppend
  <2> QED BY <2>2 DEF Accumulates
<1>1. P(0)
  <2>1. Understood(<<>>)
    <3>1. bytes \o <<>> = bytes /\ text \o <<>> = text
      BY ConcatEmptySeq
    <3> QED BY <1>0, <3>1
  <2>2. \A u \in Seq(Alphabet) : Len(u) = 0 => u = <<>>
    OBVIOUS
  <2> HIDE DEF Understood
  <2> QED BY <2>1, <2>2
<1>2. ASSUME NEW k \in Nat, P(k) PROVE P(k + 1)
  <2> SUFFICES ASSUME NEW u \in Seq(Alphabet), Len(u) = k + 1 PROVE Understood(u)
    OBVIOUS
  <2>1. PICK s \in Seq(Alphabet), x \in Alphabet : u = Append(s, x)
    <3>1. u # <<>>
      OBVIOUS
    <3> QED BY <3>1, SequenceEmptyOrAppend
  <2> DEFINE w == bytes \o Cat(Escapes, s)
  <2>2. w \in Seq(Alphabet) /\ Heard(w, text \o s, refused)
    <3>1. Len(s) = k
      BY <2>1
    <3> QED BY <1>2, <3>1
  <2>3. Escapes[x] \in Seq(Alphabet) /\ text \o s \in Seq(Alphabet)
    <3>1. Escapes \in [Alphabet -> Seq(Alphabet)]
      BY EscapedBytes
    <3> QED BY <3>1
  <2>4. bytes \o Cat(Escapes, u) = w \o Escapes[x]
    <3>1. Cat(Escapes, u) = Cat(Escapes, s) \o Escapes[x]
      BY <1>0, <2>1
    <3>2. Cat(Escapes, s) \in Seq(Alphabet)
      BY <1>0
    <3> DEFINE c == Cat(Escapes, s)
    <3>3. (bytes \o c) \o Escapes[x] = bytes \o (c \o Escapes[x])
      <4>1. bytes \in Seq(Alphabet) /\ c \in Seq(Alphabet) /\ Escapes[x] \in Seq(Alphabet)
        BY <2>3, <3>2
      <4> HIDE DEF c
      <4>2. Associates(bytes, c, Escapes[x])
        BY <4>1, Associative
      <4> QED BY <4>2 DEF Associates
    <3> QED BY <3>1, <3>3
  <2> HIDE DEF w
  <2> DEFINE before == text \o s
  <2>i. before \in Seq(Alphabet) /\ Heard(w, before, refused)
    BY <2>2, <2>3
  <2> HIDE DEF before
  <2>5. /\ w \o Escapes[x] \in Seq(Alphabet)
        /\ Heard(w \o Escapes[x], Append(before, x), refused)
    <3>1. CASE x = "IAC"
      <4>1. Escapes[x] = <<"IAC", "IAC">>
        BY <3>1 DEF Escapes
      <4> QED BY <2>2, <2>i, <3>1, <4>1, ViewedMessages DEF Heard
    <3>2. CASE x # "IAC"
      <4>1. Escapes[x] = <<x>> /\ x \in Alphabet \ {"IAC"}
        BY <3>2 DEF Escapes
      <4> QED BY <2>2, <2>i, <4>1, ViewedMessages DEF Heard
    <3> QED BY <3>1, <3>2
  <2>6. Append(text \o s, x) = text \o u
    <3>1. u = s \o <<x>> /\ <<x>> \in Seq(Alphabet)
      BY <2>1, AppendIsConcat
    <3>2. Append(text \o s, x) = (text \o s) \o <<x>>
      BY <2>3, AppendIsConcat
    <3>3. (text \o s) \o <<x>> = text \o (s \o <<x>>)
      <4>1. text \in Seq(Alphabet) /\ s \in Seq(Alphabet) /\ <<x>> \in Seq(Alphabet)
        BY <3>1
      <4>2. Associates(text, s, <<x>>)
        BY <4>1, Associative
      <4> QED BY <4>2 DEF Associates
    <3> QED BY <3>1, <3>2, <3>3
  <2> QED BY <2>4, <2>5, <2>6 DEF before
<1> HIDE DEF P
<1>3. 0 \in T /\ \A k \in Nat : k \in T => k + 1 \in T
  BY <1>1, <1>2
<1>4. Nat \subseteq T
  <2> HIDE DEF T
  <2> QED BY <1>3, Induction
<1>5. P(Len(input))
  <2>1. Len(input) \in Nat
    OBVIOUS
  <2> QED BY <1>4, <2>1
<1> QED BY <1>5, EscapedBytes DEF P

-----------------------------------------------------------------------------
(* The inductive invariant of the codec.                                   *)

(* The types of the codec's sequences.                                     *)
CodecTypes ==
  /\ items \in Seq(Items) /\ inputs \in Seq(Inputs)
  /\ wire \in Seq(Alphabet) /\ br \in Seq(Alphabet) /\ out \in Seq(Alphabet)
  /\ p \in Seq(Alphabet) /\ delivered \in Seq(Alphabet)
  /\ lost \in Seq(Alphabet) /\ (hungUp \/ lost = <<>>)

(* The server has understood all that was written to it.                   *)
WriteInv == Heard(out, FlattenSeq(inputs), Viewed(out).refused)

(* Of the items done, the text has been found and the refusals sent.       *)
Handled(done) ==
  /\ delivered \o p = Cat(Texts, done)
  /\ hungUp \/ Viewed(out).refused = Cat(Refusals, done)

(* The bytes the server has sent and the stream has not returned: only a   *)
(* hang-up keeps some of them from arriving.                               *)
Coming == wire \o lost

(* Read is between two items, ...                                          *)
Between(done, todo) ==
  /\ items = done \o todo
  /\ at \in {"idle", "data"} /\ br \o Coming = Cat(Encoded, todo)

(* ... in an item of which it has read k bytes, ...                        *)
Midway(done, item, k, todo) ==
  /\ items = Append(done, item) \o todo
  /\ at = Where(item, k) /\ (at = "option" => command = Encoded[item][2])
  /\ Follows(br, Coming, Encoded[item], k, Cat(Encoded, todo))

(* ... or has given up the item that the end of the connection cut off.    *)
CutOff(done, item, todo) ==
  /\ items = Append(done, item) \o todo
  /\ at \in {"idle", "data"} /\ br = <<>> /\ wire = <<>> /\ hungUp
  /\ Len(Cat(Encoded, todo)) < Len(lost)
  /\ Len(lost) <= Len(Encoded[item]) + Len(Cat(Encoded, todo))

(* Read has handled the items done, and will find the items left.          *)
ReadInv ==
  \E done \in Seq(Items), todo \in Seq(Items) :
    /\ Handled(done)
    /\ \/ Between(done, todo)
       \/ \E item \in Items : \E k \in 1..Len(Encoded[item]) - 1 : Midway(done, item, k, todo)
       \/ \E item \in Items : CutOff(done, item, todo)

(* Of the two directions together.                                         *)
CodecInv == CodecTypes /\ WriteInv /\ ReadInv

(* Cat, of a function of items.                                            *)
LEMMA ItemSums ==
  ASSUME NEW f \in {Encoded, Texts, Refusals}
  PROVE  /\ Cat(f, <<>>) = <<>>
         /\ \A s \in Seq(Items) : Cat(f, s) \in Seq(Alphabet)
         /\ \A item \in Items : Cat(f, <<item>>) = f[item] /\ f[item] \in Seq(Alphabet)
         /\ \A s \in Seq(Items), item \in Items : Cat(f, Append(s, item)) = Cat(f, s) \o f[item]
         /\ \A s \in Seq(Items), t \in Seq(Items) : Joined(f, s, t)
<1>1. f \in [Items -> Seq(Alphabet)]
  BY Encodings
<1>2. /\ Cat(f, <<>>) = <<>>
      /\ \A s \in Seq(Items) : Cat(f, s) \in Seq(Alphabet)
      /\ \A s \in Seq(Items), item \in Items : Cat(f, Append(s, item)) = Cat(f, s) \o f[item]
  <2>1. Accumulates(f, Items, Alphabet)
    BY <1>1, CatAppend
  <2> QED BY <2>1 DEF Accumulates
<1>3. /\ \A item \in Items : Cat(f, <<item>>) = f[item]
      /\ \A s \in Seq(Items), t \in Seq(Items) : Joined(f, s, t)
  <2>1. Distributes(f, Items)
    BY <1>1, CatFacts
  <2> QED BY <2>1 DEF Distributes
<1>4. \A item \in Items : f[item] \in Seq(Alphabet)
  BY <1>1
<1> QED BY <1>2, <1>3, <1>4

(* Of the items left, the first one is next.                               *)
LEMMA FirstOfTodo ==
  ASSUME NEW done \in Seq(Items), NEW todo \in Seq(Items), todo # <<>>
  PROVE  \E item \in Items, rest \in Seq(Items) :
           /\ done \o todo = Append(done, item) \o rest
           /\ Cat(Encoded, todo) = Encoded[item] \o Cat(Encoded, rest)
           /\ Cat(Encoded, todo) # <<>>
<1> DEFINE item == Head(todo)
           rest == Tail(todo)
<1>1. item \in Items /\ rest \in Seq(Items) /\ <<item>> \in Seq(Items) /\ todo = <<item>> \o rest
  OBVIOUS
<1> HIDE DEF item, rest
<1>2. done \o todo = Append(done, item) \o rest
  <2>1. Append(done, item) = done \o <<item>>
    BY <1>1, AppendIsConcat
  <2>2. Associates(done, <<item>>, rest)
    BY <1>1, Associative
  <2> QED BY <1>1, <2>1, <2>2 DEF Associates
<1>3. Cat(Encoded, todo) = Encoded[item] \o Cat(Encoded, rest)
  <2>1. /\ Cat(Encoded, <<item>> \o rest) = Cat(Encoded, <<item>>) \o Cat(Encoded, rest)
        /\ Cat(Encoded, <<item>>) = Encoded[item]
    <3>1. Joined(Encoded, <<item>>, rest) /\ Cat(Encoded, <<item>>) = Encoded[item]
      BY <1>1, ItemSums
    <3> QED BY <3>1 DEF Joined
  <2> QED BY <1>1, <2>1
<1>4. Cat(Encoded, todo) # <<>>
  <2>1. Encoded[item] \in Seq(Alphabet) /\ Len(Encoded[item]) > 0 /\ Cat(Encoded, rest) \in Seq(Alphabet)
    <3>1. Encoded[item] \in Seq(Alphabet) /\ Cat(Encoded, rest) \in Seq(Alphabet)
      BY <1>1, ItemSums
    <3>2. Len(Encoded[item]) > 0
      BY <1>1, EncodedBytes
    <3> QED BY <3>1, <3>2
  <2>2. Len(Encoded[item] \o Cat(Encoded, rest)) > 0
    BY <2>1
  <2> QED BY <1>3, <2>2
<1> QED BY <1>1, <1>2, <1>3, <1>4

(* A byte that Read looks at is the next one of an item.                   *)
NextIs(done, item, k, todo) ==
  /\ Handled(done) /\ items = Append(done, item) \o todo
  /\ IF k = 0 THEN at = "data" ELSE at = Where(item, k)
  /\ at = "option" => command = Encoded[item][2]
  /\ Head(br) = Encoded[item][k+1] /\ Tail(br) \in Seq(Alphabet)
  /\ Follows(Tail(br), Coming, Encoded[item], k + 1, Cat(Encoded, todo))

(* Wherever Read is, the byte it looks at is the next one of an item.      *)
LEMMA NextFound ==
  ASSUME CodecTypes, ReadInv, at # "idle", br # <<>>
  PROVE  \E done \in Seq(Items), item \in Items, todo \in Seq(Items) :
           \E k \in 0..Len(Encoded[item]) - 1 : NextIs(done, item, k, todo)
<1>0. /\ \A item \in Items : Encoded[item] \in Seq(Alphabet) /\ Len(Encoded[item]) \in Nat \ {0}
      /\ \A todo \in Seq(Items) : Cat(Encoded, todo) \in Seq(Alphabet)
  <2>1. Encoded \in [Items -> Seq(Alphabet)]
    BY Encodings
  <2>2. \A todo \in Seq(Items) : Cat(Encoded, todo) \in Seq(Alphabet)
    BY ItemSums
  <2> QED BY <2>1, <2>2, EncodedBytes
<1>1. br \in Seq(Alphabet) /\ Coming \in Seq(Alphabet)
  BY DEF CodecTypes, Coming
<1>2. ASSUME NEW item \in Items, NEW k \in 0..Len(Encoded[item]) - 1, NEW todo \in Seq(Items),
             Follows(br, Coming, Encoded[item], k, Cat(Encoded, todo))
      PROVE  /\ Head(br) = Encoded[item][k+1] /\ Tail(br) \in Seq(Alphabet)
             /\ Follows(Tail(br), Coming, Encoded[item], k + 1, Cat(Encoded, todo))
  <2> DEFINE s == Encoded[item]
             more == Cat(Encoded, todo)
  <2>1. /\ s \in Seq(Alphabet) /\ k \in Nat /\ k < Len(s) /\ more \in Seq(Alphabet)
        /\ Follows(br, Coming, s, k, more) /\ br # <<>>
    BY <1>0, <1>2
  <2> HIDE DEF s, more
  <2>2. /\ Head(br) = s[k+1] /\ Tail(br) \in Seq(Alphabet)
        /\ Follows(Tail(br), Coming, s, k + 1, more)
    BY <1>1, <2>1, NextOf
  <2> QED BY <2>2 DEF s, more
<1>3. PICK done \in Seq(Items), todo \in Seq(Items) :
        /\ Handled(done)
        /\ \/ Between(done, todo)
           \/ \E item \in Items : \E k \in 1..Len(Encoded[item]) - 1 : Midway(done, item, k, todo)
           \/ \E item \in Items : CutOff(done, item, todo)
  BY DEF ReadInv
<1>4. CASE Between(done, todo)
  <2>1. items = done \o todo /\ at = "data" /\ br \o Coming = Cat(Encoded, todo)
    BY <1>4 DEF Between
  <2>2. todo # <<>>
    <3>1. br \o Coming # <<>>
      BY <1>1, ConcatEqualIffEmpty
    <3>2. Cat(Encoded, <<>>) = <<>>
      BY ItemSums
    <3> QED BY <2>1, <3>1, <3>2
  <2>3. PICK item \in Items, rest \in Seq(Items) :
          /\ done \o todo = Append(done, item) \o rest
          /\ Cat(Encoded, todo) = Encoded[item] \o Cat(Encoded, rest)
    BY <2>2, FirstOfTodo, ZenonT(60)
  <2>4. 0 \in 0..Len(Encoded[item]) - 1 /\ Cut(Encoded[item], 0) = Encoded[item]
    <3>1. Encoded[item] \in Seq(Alphabet) /\ Len(Encoded[item]) \in Nat \ {0}
      BY <1>0
    <3>2. 0 \in 0..Len(Encoded[item]) - 1
      BY <3>1
    <3> DEFINE s == Encoded[item]
    <3>3. s \in Seq(Alphabet)
      BY <3>1
    <3> HIDE DEF s
    <3>4. Cut(s, 0) = s
      BY <3>3, CutFacts
    <3> QED BY <3>2, <3>4 DEF s
  <2>5. /\ Head(br) = Encoded[item][0+1] /\ Tail(br) \in Seq(Alphabet)
        /\ Follows(Tail(br), Coming, Encoded[item], 0 + 1, Cat(Encoded, rest))
    <3>1. Follows(br, Coming, Encoded[item], 0, Cat(Encoded, rest))
      BY <2>1, <2>3, <2>4 DEF Follows
    <3> QED BY <1>2, <2>4, <3>1
  <2>6. NextIs(done, item, 0, rest)
    BY <1>3, <2>1, <2>3, <2>5 DEF NextIs
  <2> QED BY <2>4, <2>6
<1>5. CASE \E item \in Items : \E k \in 1..Len(Encoded[item]) - 1 : Midway(done, item, k, todo)
  <2>1. PICK item \in Items : \E k \in 1..Len(Encoded[item]) - 1 : Midway(done, item, k, todo)
    BY <1>5
  <2>2. PICK k \in 1..Len(Encoded[item]) - 1 : Midway(done, item, k, todo)
    BY <2>1
  <2>3. k \in 0..Len(Encoded[item]) - 1 /\ k # 0
    BY <1>0
  <2>4. /\ Head(br) = Encoded[item][k+1] /\ Tail(br) \in Seq(Alphabet)
        /\ Follows(Tail(br), Coming, Encoded[item], k + 1, Cat(Encoded, todo))
    BY <1>2, <2>2, <2>3 DEF Midway
  <2>5. NextIs(done, item, k, todo)
    BY <1>3, <2>2, <2>3, <2>4 DEF NextIs, Midway
  <2> QED BY <2>3, <2>5
<1>6. CASE \E item \in Items : CutOff(done, item, todo)
  BY <1>6 DEF CutOff
<1> QED BY <1>3, <1>4, <1>5, <1>6

(* A turn that ends has either returned its text or goes on with it.       *)
LEMMA TurnEnds ==
  ASSUME CodecTypes, NEW text \in Seq(Alphabet), EndOfTurn(text)
  PROVE  /\ at' \in {"idle", "data"}
         /\ p' \in Seq(Alphabet) /\ delivered' \in Seq(Alphabet)
         /\ delivered' \o p' = delivered \o text
<1>0. delivered \in Seq(Alphabet) /\ delivered \o text \in Seq(Alphabet)
  BY DEF CodecTypes
<1>1. CASE Return(text)
  <2>1. (delivered \o text) \o <<>> = delivered \o text
    BY <1>0, ConcatEmptySeq
  <2> QED BY <1>0, <1>1, <2>1 DEF Return
<1>2. CASE at' = "data" /\ p' = text /\ UNCHANGED delivered
  BY <1>0, <1>2
<1> QED BY <1>1, <1>2 DEF EndOfTurn

(* An error returns the text that has been found, or happens without any.  *)
LEMMA ReadFailed ==
  ASSUME CodecTypes, Fails
  PROVE  /\ at' = "idle"
         /\ p' \in Seq(Alphabet) /\ delivered' \in Seq(Alphabet)
         /\ delivered' \o p' = delivered \o p
<1>0. delivered \in Seq(Alphabet) /\ p \in Seq(Alphabet) /\ delivered \o p \in Seq(Alphabet)
  BY DEF CodecTypes
<1>1. CASE Return(p)
  <2>1. (delivered \o p) \o <<>> = delivered \o p
    BY <1>0, ConcatEmptySeq
  <2> QED BY <1>0, <1>1, <2>1 DEF Return
<1>2. CASE at' = "idle" /\ UNCHANGED <<delivered, p>>
  BY <1>0, <1>2
<1> QED BY <1>1, <1>2 DEF Fails

(* Read goes on inside an item.                                            *)
LEMMA GoesOn ==
  ASSUME NEW done \in Seq(Items), NEW item \in Items, NEW todo \in Seq(Items), NEW k \in Nat,
         k + 1 < Len(Encoded[item]), NextIs(done, item, k, todo),
         br' = Tail(br), at' = Where(item, k + 1), at' = "option" => command' = Encoded[item][2],
         UNCHANGED <<items, wire, lost, p, delivered, out, hungUp>>
  PROVE  ReadInv'
<1>1. Handled(done)'
  BY DEF NextIs, Handled
<1>2. k + 1 \in 1..Len(Encoded[item]) - 1
  <2>1. Len(Encoded[item]) \in Nat
    BY ItemSums
  <2> QED BY <2>1
<1>3. Midway(done, item, k + 1, todo)'
  <2>1. Coming' = Coming
    BY DEF Coming
  <2>2. Follows(br', Coming', Encoded[item], k + 1, Cat(Encoded, todo))
    BY <2>1 DEF NextIs
  <2> QED BY <2>2 DEF NextIs, Midway, Follows
<1> QED BY <1>1, <1>2, <1>3 DEF ReadInv

(* Read comes to the end of an item.                                       *)
LEMMA ItemEnds ==
  ASSUME CodecTypes, NEW done \in Seq(Items), NEW item \in Items, NEW todo \in Seq(Items),
         NEW k \in Nat, k + 1 = Len(Encoded[item]), NextIs(done, item, k, todo),
         br' = Tail(br), at' \in {"idle", "data"}, UNCHANGED <<items, wire, lost>>,
         delivered' \o p' = delivered \o (p \o Texts[item]),
         hungUp' = hungUp,
         hungUp \/ Viewed(out').refused = Viewed(out).refused \o Refusals[item]
  PROVE  ReadInv'
<1> DEFINE finished == Append(done, item)
<1>0. /\ p \in Seq(Alphabet) /\ delivered \in Seq(Alphabet) /\ finished \in Seq(Items)
      /\ Texts[item] \in Seq(Alphabet)
  <2>1. Texts[item] \in Seq(Alphabet)
    BY ItemSums
  <2> QED BY <2>1 DEF CodecTypes
<1>1. delivered' \o p' = Cat(Texts, finished)
  <2>1. Associates(delivered, p, Texts[item])
    BY <1>0, Associative
  <2>2. Cat(Texts, finished) = Cat(Texts, done) \o Texts[item]
    BY ItemSums
  <2> QED BY <2>1, <2>2 DEF Associates, NextIs, Handled
<1>2. hungUp' \/ Viewed(out').refused = Cat(Refusals, finished)
  <2>1. Cat(Refusals, finished) = Cat(Refusals, done) \o Refusals[item]
    BY ItemSums
  <2> QED BY <2>1 DEF NextIs, Handled
<1>3. Tail(br) \o Coming = Cat(Encoded, todo)
  <2> DEFINE s == Encoded[item]
             more == Cat(Encoded, todo)
  <2>1. s \in Seq(Alphabet) /\ more \in Seq(Alphabet)
    BY ItemSums
  <2>2. Tail(br) \o Coming = Cut(s, Len(s)) \o more
    BY DEF NextIs, Follows
  <2> HIDE DEF s, more
  <2>3. Cut(s, Len(s)) \o more = more
    BY <2>1, CutFacts
  <2> QED BY <2>2, <2>3 DEF more
<1>4. Between(finished, todo)'
  <2>1. Coming' = Coming
    BY DEF Coming
  <2> QED BY <1>3, <2>1 DEF NextIs, Between
<1>5. Handled(finished)'
  BY <1>1, <1>2 DEF Handled
<1> QED BY <1>0, <1>4, <1>5 DEF ReadInv

(* The bytes of an item, where Read is among them, and what it stands for. *)
LEMMA ItemFacts ==
  ASSUME NEW item \in Items, NEW k \in 0..Len(Encoded[item]) - 1
  PROVE  /\ k \in Nat /\ Len(Encoded[item]) \in Nat
         /\ k = 0 => IF item = "text"
                     THEN Encoded[item][k+1] = "text" /\ k + 1 = Len(Encoded[item])
                     ELSE Encoded[item][k+1] = "IAC" /\ k + 1 < Len(Encoded[item])
         /\ k = 1 => /\ item # "text" /\ Where(item, k) = "command"
                     /\ item = "escaped" => Encoded[item][k+1] = "IAC" /\ k + 1 = Len(Encoded[item])
                     /\ item = "command" => Encoded[item][k+1] = "NOP" /\ k + 1 = Len(Encoded[item])
                     /\ item = "ask" => Encoded[item][k+1] = "DO" /\ k + 1 < Len(Encoded[item])
                     /\ item = "offer" => Encoded[item][k+1] = "WILL" /\ k + 1 < Len(Encoded[item])
                     /\ item = "refuse" => Encoded[item][k+1] = "WONT" /\ k + 1 < Len(Encoded[item])
                     /\ item = "sub" => Encoded[item][k+1] = "SB" /\ k + 1 < Len(Encoded[item])
         /\ k > 1 => IF item = "sub"
                     THEN /\ Where(item, k) = IF k \in {4, 8} THEN "subIAC" ELSE "sub"
                          /\ k \in 2..8 /\ (k + 1 = Len(Encoded[item]) <=> k = 8)
                     ELSE /\ Where(item, k) = "option" /\ k + 1 = Len(Encoded[item])
                          /\ item \in {"ask", "offer", "refuse"} /\ Encoded[item][k+1] = "opt"
<1>1. Len(Encoded[item]) = IF item = "text" THEN 1 ELSE IF item \in {"escaped", "command"} THEN 2
                           ELSE IF item = "sub" THEN 9 ELSE 3
  BY EncodedBytes
<1>2. k \in Nat /\ k <= Len(Encoded[item]) - 1 /\ Len(Encoded[item]) \in Nat
  BY <1>1
<1>3. CASE k = 0
  BY <1>1, <1>3, EncodedBytes
<1>4. CASE k = 1
  BY <1>1, <1>2, <1>4, EncodedBytes DEF Where, Items
<1>5. CASE k > 1
  <2>1. CASE item = "sub"
    BY <1>1, <1>2, <1>5, <2>1 DEF Where
  <2>2. CASE item # "sub"
    <3>1. k = 2 /\ item \in {"ask", "offer", "refuse"}
      BY <1>1, <1>2, <1>5, <2>2 DEF Items
    <3> QED BY <1>1, <2>2, <3>1, EncodedBytes DEF Where
  <2> QED BY <1>5, <2>1, <2>2
<1> QED BY <1>2, <1>3, <1>4, <1>5

(* What an item stands for; an empty answer or text changes nothing.       *)
LEMMA ItemMeaning ==
  ASSUME CodecTypes, NEW item \in Items
  PROVE  /\ Texts[item] = IF item = "text" THEN <<"text">> ELSE IF item = "escaped" THEN <<"IAC">> ELSE <<>>
         /\ Refusals[item] = IF item = "ask" THEN <<"WONT">> ELSE IF item = "offer" THEN <<"DONT">> ELSE <<>>
         /\ p \o <<>> = p
         /\ Viewed(out).refused \o <<>> = Viewed(out).refused
<1>1. Viewed(out).refused \in Seq(Alphabet) /\ p \in Seq(Alphabet)
  <2>1. Viewed(out) \in Views
    BY ViewedFacts DEF CodecTypes
  <2> QED BY <2>1 DEF Views, CodecTypes
<1>2. p \o <<>> = p /\ Viewed(out).refused \o <<>> = Viewed(out).refused
  BY <1>1, ConcatEmptySeq
<1> QED BY <1>2 DEF Texts, Refusals, TextOf, AnswerTo

(* What the steps of Read keep: the invariant and the types of what they   *)
(* change.                                                                 *)
ReadKept == ReadInv' /\ br' \in Seq(Alphabet) /\ p' \in Seq(Alphabet) /\ delivered' \in Seq(Alphabet)

(* An item ends without a reply, with the text found so far and its own.   *)
LEMMA SilentEnd ==
  ASSUME CodecTypes, NEW done \in Seq(Items), NEW item \in Items, NEW todo \in Seq(Items),
         NEW k \in Nat, k + 1 = Len(Encoded[item]), NextIs(done, item, k, todo),
         br' = Tail(br), UNCHANGED <<items, wire, lost, out, hungUp>>,
         item \notin {"ask", "offer"},
         NEW text, text = p \o Texts[item], EndOfTurn(text)
  PROVE  ReadKept
<1>1. text \in Seq(Alphabet)
  <2>1. Texts[item] \in Seq(Alphabet)
    BY ItemSums
  <2> QED BY <2>1 DEF CodecTypes
<1>2. /\ at' \in {"idle", "data"} /\ p' \in Seq(Alphabet) /\ delivered' \in Seq(Alphabet)
      /\ delivered' \o p' = delivered \o text
  BY <1>1, TurnEnds
<1>3. Viewed(out').refused = Viewed(out).refused \o Refusals[item]
  <2>1. Refusals[item] = <<>>
    BY ItemMeaning
  <2> QED BY <2>1, ItemMeaning
<1>4. ReadInv'
  BY <1>2, <1>3, ItemEnds
<1>5. br' \in Seq(Alphabet)
  BY DEF NextIs
<1> QED BY <1>2, <1>4, <1>5 DEF ReadKept

(* A byte outside a command is text, or begins a command.                  *)
LEMMA ReadDataStep == ASSUME CodecTypes, ReadInv, ReadData PROVE ReadKept
<1>0. at = "data" /\ br # <<>> /\ br' = Tail(br) /\ UNCHANGED <<items, wire, lost, command, out, hungUp>>
  BY DEF ReadData, NextByte
<1>1. PICK done \in Seq(Items), item \in Items, todo \in Seq(Items) :
        \E k \in 0..Len(Encoded[item]) - 1 : NextIs(done, item, k, todo)
  BY <1>0, NextFound
<1>2. PICK k \in 0..Len(Encoded[item]) - 1 : NextIs(done, item, k, todo)
  BY <1>1
<1>3. k = 0
  BY <1>0, <1>2, ItemFacts DEF NextIs
<1>4. Head(br) = Encoded[item][k+1] /\ Tail(br) \in Seq(Alphabet)
  BY <1>2 DEF NextIs
<1>5. CASE item = "text"
  <2>1. Head(br) = "text" /\ k + 1 = Len(Encoded[item]) /\ k \in Nat
    BY <1>3, <1>4, <1>5, ItemFacts
  <2>2. PICK text : text = Append(p, Head(br))
    OBVIOUS
  <2>3. EndOfTurn(text)
    BY <2>1, <2>2 DEF ReadData
  <2>4. text = p \o Texts[item]
    <3>1. Texts[item] = <<"text">>
      BY <1>5, ItemMeaning
    <3>2. Append(p, "text") = p \o <<"text">>
      <4>1. p \in Seq(Alphabet) /\ "text" \in Alphabet
        BY DEF CodecTypes, Alphabet
      <4> QED BY <4>1, AppendIsConcat
    <3> QED BY <2>1, <2>2, <3>1, <3>2
  <2> QED BY <1>0, <1>2, <1>5, <2>1, <2>3, <2>4, SilentEnd, Zenon
<1>6. CASE item # "text"
  <2>1. Head(br) = "IAC" /\ k + 1 < Len(Encoded[item]) /\ k \in Nat
    BY <1>3, <1>4, <1>6, ItemFacts
  <2>2. at' = "command" /\ UNCHANGED <<p, delivered>>
    BY <2>1 DEF ReadData
  <2>3. Where(item, k + 1) = "command"
    BY <1>3 DEF Where
  <2>4. ReadInv'
    BY <1>0, <1>2, <2>1, <2>2, <2>3, GoesOn
  <2> QED BY <1>0, <1>4, <2>2, <2>4 DEF ReadKept, CodecTypes
<1> QED BY <1>5, <1>6

(* The byte after an IAC is an IAC of the text, a command that ends here,  *)
(* or the beginning of a negotiation or a subnegotiation.                  *)
LEMMA HandleCommandStep == ASSUME CodecTypes, ReadInv, HandleCommand PROVE ReadKept
<1>0. at = "command" /\ br # <<>> /\ br' = Tail(br) /\ UNCHANGED <<items, wire, lost, out, hungUp>>
  BY DEF HandleCommand, NextByte
<1>1. PICK done \in Seq(Items), item \in Items, todo \in Seq(Items) :
        \E k \in 0..Len(Encoded[item]) - 1 : NextIs(done, item, k, todo)
  BY <1>0, NextFound
<1>2. PICK k \in 0..Len(Encoded[item]) - 1 : NextIs(done, item, k, todo)
  BY <1>1
<1>3. k = 1 /\ k \in Nat
  <2>1. k # 0 /\ Where(item, k) = "command"
    BY <1>0, <1>2 DEF NextIs
  <2>2. ~(k > 1)
    BY <2>1, ItemFacts
  <2> QED BY <2>1, <2>2, ItemFacts
<1>4. Head(br) = Encoded[item][k+1] /\ Tail(br) \in Seq(Alphabet)
  BY <1>2 DEF NextIs
<1>5. CASE item = "escaped"
  <2>1. Head(br) = "IAC" /\ k + 1 = Len(Encoded[item])
    BY <1>3, <1>4, <1>5, ItemFacts
  <2>2. PICK text : text = Append(p, "IAC")
    OBVIOUS
  <2>3. EndOfTurn(text)
    BY <2>1, <2>2 DEF HandleCommand
  <2>4. text = p \o Texts[item]
    <3>1. Texts[item] = <<"IAC">>
      BY <1>5, ItemMeaning
    <3>2. Append(p, "IAC") = p \o <<"IAC">>
      <4>1. p \in Seq(Alphabet) /\ "IAC" \in Alphabet
        BY DEF CodecTypes, Alphabet
      <4> QED BY <4>1, AppendIsConcat
    <3> QED BY <2>2, <3>1, <3>2
  <2> QED BY <1>0, <1>2, <1>3, <1>5, <2>1, <2>3, <2>4, SilentEnd, Zenon
<1>6. CASE item = "command"
  <2>1. Head(br) = "NOP" /\ k + 1 = Len(Encoded[item])
    BY <1>3, <1>4, <1>6, ItemFacts
  <2>2. PICK text : text = p
    OBVIOUS
  <2>3. EndOfTurn(text)
    BY <2>1, <2>2 DEF HandleCommand
  <2>4. text = p \o Texts[item]
    <3>1. Texts[item] = <<>> /\ p \o <<>> = p
      BY <1>6, ItemMeaning
    <3> QED BY <2>2, <3>1
  <2> QED BY <1>0, <1>2, <1>3, <1>6, <2>1, <2>3, <2>4, SilentEnd, Zenon
<1>7. CASE item \in {"ask", "offer", "refuse"}
  <2>1. Head(br) \in {"DO", "WILL", "WONT"} /\ k + 1 < Len(Encoded[item])
    BY <1>3, <1>4, <1>7, ItemFacts
  <2>2. at' = "option" /\ command' = Head(br) /\ UNCHANGED <<p, delivered>>
    BY <2>1 DEF HandleCommand
  <2>3. Where(item, k + 1) = "option" /\ Head(br) = Encoded[item][2]
    BY <1>3, <1>4, <1>7 DEF Where
  <2>4. ReadInv'
    BY <1>0, <1>2, <1>3, <2>1, <2>2, <2>3, GoesOn
  <2> QED BY <1>0, <1>4, <2>2, <2>4 DEF ReadKept, CodecTypes
<1>8. CASE item = "sub"
  <2>1. Head(br) = "SB" /\ k + 1 < Len(Encoded[item])
    BY <1>3, <1>4, <1>8, ItemFacts
  <2>2. at' = "sub" /\ UNCHANGED <<p, delivered>>
    BY <2>1 DEF HandleCommand
  <2>3. Where(item, k + 1) = "sub"
    BY <1>3, <1>8 DEF Where
  <2>4. ReadInv'
    BY <1>0, <1>2, <1>3, <2>1, <2>2, <2>3, GoesOn
  <2> QED BY <1>0, <1>4, <2>2, <2>4 DEF ReadKept, CodecTypes
<1>9. item # "text"
  BY <1>3, ItemFacts
<1> QED BY <1>5, <1>6, <1>7, <1>8, <1>9 DEF Items

(* A subnegotiation is skipped, up to the SE after an IAC that is not the  *)
(* second of a pair.                                                       *)
LEMMA SkipSubnegotiationStep == ASSUME CodecTypes, ReadInv, SkipSubnegotiation PROVE ReadKept
<1>0. at \in {"sub", "subIAC"} /\ br # <<>> /\ br' = Tail(br) /\ UNCHANGED <<items, wire, lost, command, out, hungUp>>
  BY DEF SkipSubnegotiation, NextByte
<1>1. PICK done \in Seq(Items), item \in Items, todo \in Seq(Items) :
        \E k \in 0..Len(Encoded[item]) - 1 : NextIs(done, item, k, todo)
  BY <1>0, NextFound
<1>2. PICK k \in 0..Len(Encoded[item]) - 1 : NextIs(done, item, k, todo)
  BY <1>1
<1>3. item = "sub" /\ k \in 2..8 /\ k \in Nat /\ at = IF k \in {4, 8} THEN "subIAC" ELSE "sub"
  <2>1. k # 0 /\ at = Where(item, k)
    BY <1>0, <1>2 DEF NextIs
  <2>2. k # 1
    BY <1>0, <2>1, ItemFacts
  <2>3. k > 1
    BY <2>1, <2>2
  <2>4. item = "sub"
    BY <1>0, <2>1, <2>3, ItemFacts
  <2> QED BY <2>1, <2>3, <2>4, ItemFacts
<1>4. Head(br) = Encoded[item][k+1] /\ Tail(br) \in Seq(Alphabet)
  BY <1>2 DEF NextIs
<1>5. Len(Encoded[item]) = 9
  BY <1>3, EncodedBytes
<1>6. CASE k = 8
  <2>1. Head(br) = "SE" /\ at = "subIAC" /\ k + 1 = Len(Encoded[item])
    BY <1>3, <1>4, <1>5, <1>6, EncodedBytes
  <2>2. PICK text : text = p
    OBVIOUS
  <2>3. EndOfTurn(text)
    BY <2>1, <2>2 DEF SkipSubnegotiation
  <2>4. text = p \o Texts[item]
    <3>1. Texts[item] = <<>> /\ p \o <<>> = p
      BY <1>3, ItemMeaning
    <3> QED BY <2>2, <3>1
  <2> QED BY <1>0, <1>2, <1>3, <2>1, <2>3, <2>4, SilentEnd, Zenon
<1>7. CASE k # 8
  <2>1. k + 1 < Len(Encoded[item]) /\ k \in {2, 3, 4, 5, 6, 7}
    BY <1>3, <1>5, <1>7
  <2>3. Where(item, k + 1) = IF k \in {3, 7} THEN "subIAC" ELSE "sub"
    BY <1>3, <2>1 DEF Where
  <2>4. at' = (IF k \in {3, 7} THEN "subIAC" ELSE "sub") /\ UNCHANGED <<p, delivered>>
    <3>1. CASE k = 4
      <4>1. at = "subIAC" /\ Head(br) = "IAC"
        BY <1>3, <1>4, <3>1, EncodedBytes
      <4> QED BY <3>1, <4>1 DEF SkipSubnegotiation
    <3>2. CASE k = 3 \/ k = 7
      <4>1. at = "sub" /\ Head(br) = "IAC"
        BY <1>3, <1>4, <3>2, EncodedBytes
      <4> QED BY <3>2, <4>1 DEF SkipSubnegotiation
    <3>3. CASE k = 2 \/ k = 5 \/ k = 6
      <4>1. at = "sub" /\ Head(br) # "IAC"
        BY <1>3, <1>4, <3>3, EncodedBytes
      <4> QED BY <3>3, <4>1 DEF SkipSubnegotiation
    <3> QED BY <2>1, <3>1, <3>2, <3>3
  <2>5. at' = Where(item, k + 1) /\ at' # "option" /\ UNCHANGED <<p, delivered>>
    BY <2>3, <2>4
  <2>6. ReadInv'
    BY <1>0, <1>2, <1>3, <2>1, <2>5, GoesOn
  <2> QED BY <1>0, <1>4, <2>5, <2>6 DEF ReadKept, CodecTypes
<1> QED BY <1>6, <1>7

(* An option is refused, once, if there is anything to refuse.             *)
LEMMA RespondNegotiationStep ==
  ASSUME CodecTypes, WriteInv, ReadInv, RespondNegotiation
  PROVE  ReadKept /\ out' \in Seq(Alphabet) /\ WriteInv'
<1>0. at = "option" /\ br # <<>> /\ br' = Tail(br) /\ UNCHANGED <<items, inputs, wire, lost, hungUp>>
  BY DEF RespondNegotiation, NextByte
<1>1. PICK done \in Seq(Items), item \in Items, todo \in Seq(Items) :
        \E k \in 0..Len(Encoded[item]) - 1 : NextIs(done, item, k, todo)
  BY <1>0, NextFound
<1>2. PICK k \in 0..Len(Encoded[item]) - 1 : NextIs(done, item, k, todo)
  BY <1>1
<1>3. /\ item \in {"ask", "offer", "refuse"} /\ Encoded[item][k+1] = "opt"
      /\ k + 1 = Len(Encoded[item]) /\ k \in Nat
  <2>1. k # 0 /\ at = Where(item, k)
    BY <1>0, <1>2 DEF NextIs
  <2>2. k # 1
    BY <1>0, <2>1, ItemFacts
  <2>3. k > 1
    BY <2>1, <2>2
  <2>4. item # "sub"
    BY <1>0, <2>1, <2>3, ItemFacts
  <2> QED BY <2>3, <2>4, ItemFacts
<1>4. Head(br) = "opt" /\ br' \in Seq(Alphabet) /\ command = Encoded[item][2]
  BY <1>0, <1>2, <1>3 DEF NextIs
<1>5. Reply(command) = IF item = "ask" THEN "WONT" ELSE IF item = "offer" THEN "DONT" ELSE "none"
  BY <1>3, <1>4, EncodedBytes DEF Reply
<1>6. /\ p \in Seq(Alphabet) /\ Texts[item] = <<>> /\ p \o <<>> = p
      /\ Viewed(out).refused \o <<>> = Viewed(out).refused
      /\ Refusals[item] = IF item = "ask" THEN <<"WONT">> ELSE IF item = "offer" THEN <<"DONT">> ELSE <<>>
  <2>1. item # "text" /\ item # "escaped"
    BY <1>3
  <2> QED BY <2>1, ItemMeaning DEF CodecTypes
<1>7. CASE hungUp /\ Fails /\ UNCHANGED out
  <2>1. at' = "idle" /\ p' \in Seq(Alphabet) /\ delivered' \in Seq(Alphabet) /\ delivered' \o p' = delivered \o p
    BY <1>7, ReadFailed
  <2>2. ReadInv'
    BY <1>0, <1>2, <1>3, <1>6, <1>7, <2>1, ItemEnds
  <2>3. out' \in Seq(Alphabet) /\ WriteInv'
    BY <1>0, <1>7 DEF CodecTypes, WriteInv
  <2> QED BY <1>4, <2>1, <2>2, <2>3 DEF ReadKept
<1>8. CASE /\ out' = IF Reply(command) = "none" THEN out ELSE out \o <<"IAC", Reply(command), Head(br)>>
           /\ EndOfTurn(p)
  <2>1. /\ at' \in {"idle", "data"} /\ p' \in Seq(Alphabet) /\ delivered' \in Seq(Alphabet)
        /\ delivered' \o p' = delivered \o p
    <3>1. PICK text : text = p
      OBVIOUS
    <3>2. EndOfTurn(text) /\ text \in Seq(Alphabet)
      BY <1>6, <1>8, <3>1
    <3> QED BY <3>1, <3>2, TurnEnds
  <2>2. /\ out' \in Seq(Alphabet)
        /\ Viewed(out') = Seen(<<>>, FlattenSeq(inputs), Viewed(out').refused)
        /\ Viewed(out').refused = Viewed(out).refused \o Refusals[item]
    <3>1. CASE item = "refuse"
      <4>1. out' = out /\ Refusals[item] = <<>>
        BY <1>5, <1>6, <1>8, <3>1
      <4> QED BY <1>6, <4>1 DEF WriteInv, Heard, CodecTypes
    <3>2. CASE item # "refuse"
      <4> DEFINE r == Reply(command)
                 text == FlattenSeq(inputs)
                 refused == Viewed(out).refused
      <4>1. r \in Alphabet \ {"IAC"} /\ Refusals[item] = <<r>> /\ "opt" \in Alphabet
        BY <1>3, <1>5, <1>6, <3>2 DEF Alphabet
      <4>2. out' = out \o <<"IAC", r, "opt">>
        BY <1>3, <1>4, <1>5, <1>8, <3>2
      <4>3. /\ out \in Seq(Alphabet) /\ text \in Seq(Alphabet) /\ refused \in Seq(Alphabet)
            /\ Viewed(out) = Seen(<<>>, text, refused)
        <5>1. Viewed(out) \in Views
          BY ViewedFacts DEF CodecTypes
        <5>2. Viewed(out) = Seen(<<>>, text, refused)
          BY DEF WriteInv, Heard
        <5>3. Viewed(out).text = text
          BY <5>2 DEF Seen
        <5> QED BY <5>1, <5>2, <5>3 DEF Views, CodecTypes
      <4> HIDE DEF r, text, refused
      <4>4. /\ out \o <<"IAC", r, "opt">> \in Seq(Alphabet)
            /\ Viewed(out \o <<"IAC", r, "opt">>) = Seen(<<>>, text, Append(refused, r))
        BY <4>1, <4>3, ViewedMessages
      <4>5. Viewed(out') = Seen(<<>>, text, Append(refused, r)) /\ out' \in Seq(Alphabet)
        BY <4>2, <4>4
      <4>6. Viewed(out').refused = Append(refused, r)
        BY <4>5 DEF Seen
      <4>7. Append(refused, r) = refused \o <<r>>
        BY <4>1, <4>3, AppendIsConcat
      <4> QED BY <4>1, <4>5, <4>6, <4>7 DEF text, refused
    <3> QED BY <3>1, <3>2
  <2>3. ReadInv'
    BY <1>0, <1>2, <1>3, <1>6, <2>1, <2>2, ItemEnds
  <2>4. WriteInv'
    BY <1>0, <2>2 DEF WriteInv, Heard
  <2> QED BY <1>4, <2>1, <2>2, <2>3, <2>4 DEF ReadKept
<1> QED BY <1>7, <1>8 DEF RespondNegotiation

(* What the server sends joins the items left.                             *)
LEMMA ServerSendsStep == ASSUME CodecTypes, ReadInv, ServerSends PROVE CodecTypes' /\ ReadInv'
<1>0. PICK item \in Items : items' = Append(items, item) /\ wire' = wire \o Encoded[item]
  BY Encodings DEF ServerSends
<1> ~hungUp /\ lost = <<>> /\ lost' = lost
  BY DEF ServerSends, CodecTypes
<1>1. UNCHANGED <<inputs, br, at, command, p, delivered, out, hungUp>>
  BY DEF ServerSends
<1>2. /\ items \in Seq(Items) /\ br \in Seq(Alphabet) /\ wire \in Seq(Alphabet)
      /\ Encoded[item] \in Seq(Alphabet)
  <2>1. Encoded[item] \in Seq(Alphabet)
    BY ItemSums
  <2> QED BY <2>1 DEF CodecTypes
<1>3. items' \in Seq(Items) /\ wire' \in Seq(Alphabet)
  BY <1>0, <1>2
<1>4. CodecTypes'
  BY <1>1, <1>3 DEF CodecTypes
<1>5. br' \o Coming' = (br \o Coming) \o Encoded[item]
  <2>1. Coming = wire /\ Coming' = wire'
    BY <1>2, <1>3, ConcatEmptySeq DEF Coming
  <2>2. Associates(br, wire, Encoded[item])
    BY <1>2, Associative
  <2> QED BY <1>0, <1>1, <2>1, <2>2 DEF Associates
<1>6. PICK done \in Seq(Items), todo \in Seq(Items) :
        /\ Handled(done)
        /\ \/ Between(done, todo)
           \/ \E begun \in Items : \E k \in 1..Len(Encoded[begun]) - 1 : Midway(done, begun, k, todo)
           \/ \E begun \in Items : CutOff(done, begun, todo)
  BY DEF ReadInv
<1> DEFINE more == Append(todo, item)
<1>7. more \in Seq(Items) /\ Cat(Encoded, more) = Cat(Encoded, todo) \o Encoded[item]
  BY ItemSums
<1>8. ASSUME NEW before \in Seq(Items), items = before \o todo PROVE items' = before \o more
  <2>1. /\ <<item>> \in Seq(Items) /\ items' = items \o <<item>> /\ more = todo \o <<item>>
    BY <1>0, <1>2, AppendIsConcat
  <2>2. Associates(before, todo, <<item>>)
    BY <2>1, Associative
  <2> QED BY <1>8, <2>1, <2>2 DEF Associates
<1>9. Handled(done)'
  BY <1>1, <1>6 DEF Handled
<1>10. CASE Between(done, todo)
  <2>1. Between(done, more)'
    BY <1>1, <1>5, <1>7, <1>8, <1>10 DEF Between
  <2> HIDE DEF more
  <2> QED BY <1>4, <1>7, <1>9, <2>1 DEF ReadInv
<1>11. CASE \E begun \in Items : \E k \in 1..Len(Encoded[begun]) - 1 : Midway(done, begun, k, todo)
  <2>1. PICK begun \in Items : \E k \in 1..Len(Encoded[begun]) - 1 : Midway(done, begun, k, todo)
    BY <1>11
  <2>2. PICK k \in 1..Len(Encoded[begun]) - 1 : Midway(done, begun, k, todo)
    BY <2>1
  <2>3. items' = Append(done, begun) \o more
    <3>1. Append(done, begun) \in Seq(Items) /\ items = Append(done, begun) \o todo
      BY <2>2 DEF Midway
    <3> QED BY <1>8, <3>1
  <2>4. Follows(br, Coming, Encoded[begun], k, Cat(Encoded, more))'
    <3> DEFINE left == Cut(Encoded[begun], k)
    <3>1. left \in Seq(Alphabet) /\ Cat(Encoded, todo) \in Seq(Alphabet)
      <4> DEFINE s == Encoded[begun]
      <4>1. s \in Seq(Alphabet) /\ Cat(Encoded, todo) \in Seq(Alphabet)
        BY ItemSums
      <4>2. k \in Nat /\ k < Len(s)
        BY <4>1
      <4> HIDE DEF s
      <4>3. Cut(s, k) \in Seq(Alphabet)
        BY <4>1, <4>2, CutFacts
      <4> QED BY <4>1, <4>3 DEF s
    <3> HIDE DEF left
    <3>2. Associates(left, Cat(Encoded, todo), Encoded[item])
      BY <1>2, <3>1, Associative
    <3>3. br \o Coming = left \o Cat(Encoded, todo)
      BY <2>2 DEF Midway, Follows, left
    <3>4. br' \o Coming' = left \o Cat(Encoded, more)
      BY <1>5, <1>7, <3>2, <3>3 DEF Associates
    <3> QED BY <3>4 DEF Follows, left
  <2>5. Midway(done, begun, k, more)'
    BY <1>1, <2>2, <2>3, <2>4 DEF Midway
  <2> HIDE DEF more
  <2> QED BY <1>4, <1>7, <1>9, <2>5 DEF ReadInv
<1>12. ~(\E begun \in Items : CutOff(done, begun, todo))
  BY DEF CutOff
<1> QED BY <1>4, <1>6, <1>10, <1>11, <1>12

(* A sequence is what it is cut into.                                      *)
LEMMA CutInTwo ==
  ASSUME NEW S, NEW s \in Seq(S), NEW k \in 0..Len(s)
  PROVE  /\ SubSeq(s, 1, k) \in Seq(S) /\ SubSeq(s, k + 1, Len(s)) \in Seq(S)
         /\ SubSeq(s, 1, k) \o SubSeq(s, k + 1, Len(s)) = s
<1>1. Len(s) \in Nat /\ k \in Nat /\ \A i \in 1..Len(s) : s[i] \in S
  OBVIOUS
<1>2. SubSeq(s, 1, k) \in Seq(S)
  BY <1>1, SubSeqProperties
<1>3. SubSeq(s, k + 1, Len(s)) \in Seq(S)
  BY <1>1, SubSeqProperties
<1>4. SubSeq(s, 1, k) \o SubSeq(s, k + 1, Len(s)) = SubSeq(s, 1, Len(s))
  <2>1. 1 \in 1..Len(s) + 1 /\ k \in (1-1)..Len(s) /\ Len(s) \in k..Len(s)
    BY <1>1
  <2> QED BY <2>1, ConcatAdjacentSubSeq
<1>5. SubSeq(s, 1, Len(s)) = s
  BY SubSeqFull
<1> QED BY <1>2, <1>3, <1>4, <1>5

(* The invariant is kept by what leaves the bytes to come as they are, in  *)
(* one place or another, and Read where it is or at its beginning.         *)
LEMMA BytesKept ==
  ASSUME ReadInv, UNCHANGED <<items, command, p, delivered>>,
         at' = at \/ (at = "idle" /\ at' = "data"),
         Viewed(out').refused = Viewed(out).refused, hungUp => hungUp',
         br' \o Coming' = br \o Coming,
         hungUp /\ br = <<>> /\ wire = <<>> => UNCHANGED <<br, wire, lost>>
  PROVE  ReadInv'
<1>1. PICK done \in Seq(Items), todo \in Seq(Items) :
        /\ Handled(done)
        /\ \/ Between(done, todo)
           \/ \E item \in Items : \E k \in 1..Len(Encoded[item]) - 1 : Midway(done, item, k, todo)
           \/ \E item \in Items : CutOff(done, item, todo)
  BY DEF ReadInv
<1>2. Handled(done)'
  BY <1>1 DEF Handled
<1>3. CASE Between(done, todo)
  <2>1. Between(done, todo)'
    BY <1>3 DEF Between
  <2> QED BY <1>2, <2>1 DEF ReadInv
<1>4. CASE \E item \in Items : \E k \in 1..Len(Encoded[item]) - 1 : Midway(done, item, k, todo)
  <2>1. PICK item \in Items : \E k \in 1..Len(Encoded[item]) - 1 : Midway(done, item, k, todo)
    BY <1>4
  <2>2. PICK k \in 1..Len(Encoded[item]) - 1 : Midway(done, item, k, todo)
    BY <2>1
  <2>3. at # "idle"
    BY <2>2 DEF Midway, Where
  <2>4. Midway(done, item, k, todo)'
    BY <2>2, <2>3 DEF Midway, Follows
  <2> QED BY <1>2, <2>4 DEF ReadInv
<1>5. CASE \E item \in Items : CutOff(done, item, todo)
  <2>1. PICK item \in Items : CutOff(done, item, todo)
    BY <1>5
  <2>2. CutOff(done, item, todo)'
    BY <2>1 DEF CutOff
  <2> QED BY <1>2, <2>2 DEF ReadInv
<1> QED BY <1>1, <1>3, <1>4, <1>5

(* The network hands over some of the bytes under way.                     *)
LEMMA FillStep == ASSUME CodecTypes, ReadInv, Fill PROVE CodecTypes' /\ ReadInv'
<1>0. /\ br = <<>> /\ wire # <<>> /\ wire \in Seq(Alphabet) /\ lost \in Seq(Alphabet)
      /\ UNCHANGED <<items, inputs, lost, at, command, p, delivered, out, hungUp>>
  BY DEF Fill, CodecTypes
<1>1. PICK k \in 1..Len(wire) : br' = SubSeq(wire, 1, k) /\ wire' = SubSeq(wire, k + 1, Len(wire))
  BY DEF Fill
<1>2. /\ br' \in Seq(Alphabet) /\ wire' \in Seq(Alphabet)
      /\ br' \o wire' = wire
  <2>1. PICK w : w = wire
    OBVIOUS
  <2>2. w \in Seq(Alphabet) /\ k \in 0..Len(w)
    BY <1>0, <2>1
  <2>3. /\ SubSeq(w, 1, k) \in Seq(Alphabet) /\ SubSeq(w, k + 1, Len(w)) \in Seq(Alphabet)
        /\ SubSeq(w, 1, k) \o SubSeq(w, k + 1, Len(w)) = w
    BY <2>2, CutInTwo
  <2> QED BY <1>1, <2>1, <2>3
<1>3. br' \o Coming' = br \o Coming
  <2>1. Associates(br', wire', lost)
    BY <1>0, <1>2, Associative
  <2>2. <<>> \o (wire \o lost) = wire \o lost
    BY <1>0, ConcatEmptySeq
  <2> QED BY <1>0, <1>2, <2>1, <2>2 DEF Associates, Coming
<1>4. CodecTypes'
  BY <1>0, <1>2 DEF CodecTypes
<1>5. ReadInv'
  BY <1>0, <1>3, BytesKept
<1> QED BY <1>4, <1>5

(* A read that fails in an item leaves it cut off.                         *)
LEMMA ReadFailsStep == ASSUME CodecTypes, ReadInv, ReadFails PROVE ReadKept
<1>0. /\ at # "idle" /\ br = <<>> /\ wire = <<>> /\ hungUp
      /\ UNCHANGED <<items, wire, lost, br, out, hungUp>>
  BY DEF ReadFails
<1>1. at' = "idle" /\ p' \in Seq(Alphabet) /\ delivered' \in Seq(Alphabet) /\ delivered' \o p' = delivered \o p
  BY ReadFailed DEF ReadFails
<1>2. PICK done \in Seq(Items), todo \in Seq(Items) :
        /\ Handled(done)
        /\ \/ Between(done, todo)
           \/ \E item \in Items : \E k \in 1..Len(Encoded[item]) - 1 : Midway(done, item, k, todo)
           \/ \E item \in Items : CutOff(done, item, todo)
  BY DEF ReadInv
<1>3. Handled(done)'
  BY <1>0, <1>1, <1>2 DEF Handled
<1>4. CASE Between(done, todo)
  <2>1. Between(done, todo)'
    BY <1>0, <1>1, <1>4 DEF Between, Coming
  <2> QED BY <1>0, <1>1, <1>3, <2>1 DEF ReadInv, ReadKept, CodecTypes
<1>5. ASSUME NEW item \in Items, NEW k \in 1..Len(Encoded[item]) - 1, Midway(done, item, k, todo)
      PROVE  ReadKept
  <2> DEFINE s == Encoded[item]
             more == Cat(Encoded, todo)
  <2>1. s \in Seq(Alphabet) /\ more \in Seq(Alphabet) /\ lost \in Seq(Alphabet)
    BY ItemSums DEF CodecTypes
  <2>2. k \in Nat /\ 0 < k /\ k < Len(s)
    BY <2>1
  <2>3. lost = Cut(s, k) \o more
    <3>1. <<>> \o (<<>> \o lost) = lost
      BY <2>1, ConcatEmptySeq
    <3> QED BY <1>0, <1>5, <3>1 DEF Midway, Follows, Coming
  <2> HIDE DEF s, more
  <2>4. Len(more) < Len(lost) /\ Len(lost) <= Len(s) + Len(more)
    <3>1. Cut(s, k) \in Seq(Alphabet) /\ Len(Cut(s, k)) = Len(s) - k
      BY <2>1, <2>2 DEF Cut
    <3> QED BY <2>1, <2>2, <2>3, <3>1
  <2>5. CutOff(done, item, todo)'
    BY <1>0, <1>1, <1>5, <2>4 DEF CutOff, Midway, s, more
  <2> QED BY <1>0, <1>1, <1>3, <2>5 DEF ReadInv, ReadKept, CodecTypes
<1>6. ASSUME NEW item \in Items, CutOff(done, item, todo) PROVE ReadKept
  <2>1. CutOff(done, item, todo)'
    BY <1>0, <1>1, <1>6 DEF CutOff
  <2> QED BY <1>0, <1>1, <1>3, <2>1 DEF ReadInv, ReadKept, CodecTypes
<1> QED BY <1>2, <1>4, <1>5, <1>6

(* The inputs of the model are bytes like any other.                       *)
LEMMA InputBytes == Inputs \subseteq Seq(Alphabet) /\ Seq(Inputs) \subseteq Seq(Seq(Alphabet))
<1>1. <<"text">> \in Seq(Alphabet) /\ <<"IAC">> \in Seq(Alphabet) /\ <<"IAC", "text">> \in Seq(Alphabet)
  BY DEF Alphabet
<1>2. Inputs \subseteq Seq(Alphabet)
  BY <1>1 DEF Inputs
<1>3. ASSUME NEW s \in Seq(Inputs) PROVE s \in Seq(Seq(Alphabet))
  BY <1>2, SeqMonotonic
<1> QED BY <1>2, <1>3

(* An input that is written arrives.                                       *)
LEMMA WriteStep ==
  ASSUME CodecTypes, WriteInv, ReadInv, NEW input \in Inputs, Write(input)
  PROVE  CodecInv'
<1>0. /\ inputs' = Append(inputs, input) /\ out' = out \o Escaped(input)
      /\ UNCHANGED <<items, wire, lost, br, at, command, p, delivered, hungUp>>
  BY DEF Write
<1> DEFINE text == FlattenSeq(inputs)
           refused == Viewed(out).refused
<1>1. /\ inputs \in Seq(Seq(Alphabet)) /\ input \in Seq(Alphabet) /\ out \in Seq(Alphabet)
      /\ text \in Seq(Alphabet) /\ refused \in Seq(Alphabet)
      /\ Heard(out, text, refused)
  <2>1. inputs \in Seq(Seq(Alphabet)) /\ input \in Seq(Alphabet) /\ out \in Seq(Alphabet)
    BY InputBytes DEF CodecTypes
  <2>2. text \in Seq(Alphabet)
    BY <2>1, FlattenFacts
  <2>3. refused \in Seq(Alphabet)
    <3>1. Viewed(out) \in Views
      BY <2>1, ViewedFacts
    <3> QED BY <3>1 DEF Views
  <2> QED BY <2>1, <2>2, <2>3 DEF WriteInv
<1>2. FlattenSeq(inputs') = text \o input
  <2>1. FlattenSeq(Append(inputs, input)) = FlattenSeq(inputs) \o input
    BY <1>1, FlattenFacts
  <2> QED BY <1>0, <2>1
<1> HIDE DEF text, refused
<1>3. out' \in Seq(Alphabet) /\ Heard(out', text \o input, refused)
  <2>1. out \o Escaped(input) \in Seq(Alphabet) /\ Heard(out \o Escaped(input), text \o input, refused)
    BY <1>1, InputUnderstood
  <2> QED BY <1>0, <2>1
<1>4. Viewed(out').refused = refused
  BY <1>3 DEF Heard, Seen
<1>5. WriteInv'
  BY <1>2, <1>3, <1>4 DEF WriteInv
<1>6. CodecTypes'
  BY <1>0, <1>3 DEF CodecTypes
<1>7. ReadInv'
  BY <1>0, <1>4, BytesKept DEF Coming, refused
<1> QED BY <1>5, <1>6, <1>7 DEF CodecInv

(* The end of the connection decides which of the bytes under way arrive.  *)
LEMMA HangsUpStep ==
  ASSUME CodecTypes, ReadInv, ServerHangsUp
  PROVE  CodecTypes' /\ ReadInv'
<1>0. /\ wire \in Seq(Alphabet) /\ br \in Seq(Alphabet) /\ ~hungUp /\ lost = <<>> /\ hungUp'
      /\ UNCHANGED <<items, inputs, br, at, command, p, delivered, out>>
  BY DEF ServerHangsUp, CodecTypes
<1>1. PICK k \in 0..Len(wire) : wire' = SubSeq(wire, 1, k) /\ lost' = SubSeq(wire, k + 1, Len(wire))
  BY DEF ServerHangsUp
<1>2. wire' \in Seq(Alphabet) /\ lost' \in Seq(Alphabet) /\ wire' \o lost' = wire
  <2>1. PICK w : w = wire
    OBVIOUS
  <2>2. w \in Seq(Alphabet) /\ k \in 0..Len(w)
    BY <1>0, <2>1
  <2>3. /\ SubSeq(w, 1, k) \in Seq(Alphabet) /\ SubSeq(w, k + 1, Len(w)) \in Seq(Alphabet)
        /\ SubSeq(w, 1, k) \o SubSeq(w, k + 1, Len(w)) = w
    BY <2>2, CutInTwo
  <2> QED BY <1>1, <2>1, <2>3
<1>3. Coming' = Coming
  BY <1>0, <1>2, ConcatEmptySeq DEF Coming
<1>4. CodecTypes'
  BY <1>0, <1>2 DEF CodecTypes
<1>5. ReadInv'
  BY <1>0, <1>3, BytesKept
<1> QED BY <1>4, <1>5

(* Reading starts between two items, or after one that was cut off.        *)
LEMMA OtherStep ==
  ASSUME CodecTypes, WriteInv, ReadInv, StartRead \/ UNCHANGED telnetVars
  PROVE  CodecInv'
<1>0. /\ UNCHANGED <<items, inputs, wire, lost, br, command, p, delivered, out, hungUp>>
      /\ at' = at \/ (at = "idle" /\ at' = "data")
  BY DEF StartRead, telnetVars
<1>1. CodecTypes' /\ WriteInv'
  BY <1>0 DEF CodecTypes, WriteInv
<1>2. ReadInv'
  BY <1>0, BytesKept DEF Coming
<1> QED BY <1>1, <1>2 DEF CodecInv

(* The invariant holds when nothing has been sent or written,              *)
LEMMA CodecInitially == TelnetInit => CodecInv
<1> SUFFICES ASSUME TelnetInit PROVE CodecInv
  OBVIOUS
<1>0. /\ items = <<>> /\ inputs = <<>> /\ wire = <<>> /\ lost = <<>> /\ br = <<>> /\ out = <<>>
      /\ p = <<>> /\ delivered = <<>> /\ at = "idle" /\ <<>> \o <<>> = <<>>
  BY DEF TelnetInit
<1>1. CodecTypes
  BY <1>0 DEF CodecTypes
<1>2. Viewed(out) = Seen(<<>>, <<>>, <<>>) /\ Viewed(out).refused = <<>>
  <2>1. Viewed(out) = Seen(<<>>, <<>>, <<>>)
    BY <1>0, ViewedFacts DEF NothingSeen, Seen
  <2> QED BY <2>1 DEF Seen
<1>3. WriteInv
  <2>1. FlattenSeq(<<>>) = <<>>
    BY FlattenFacts
  <2> QED BY <1>0, <1>2, <2>1 DEF WriteInv, Heard
<1>4. Cat(Texts, <<>>) = <<>> /\ Cat(Refusals, <<>>) = <<>> /\ Cat(Encoded, <<>>) = <<>>
  BY ItemSums
<1>5. Handled(<<>>) /\ Between(<<>>, <<>>) /\ <<>> \in Seq(Items)
  BY <1>0, <1>2, <1>4 DEF Handled, Between, Coming
<1> QED BY <1>1, <1>3, <1>5 DEF CodecInv, ReadInv

(* ... and every step keeps it.                                            *)
LEMMA CodecStep == CodecInv /\ [TelnetNext]_telnetVars => CodecInv'
<1> SUFFICES ASSUME CodecInv, [TelnetNext]_telnetVars PROVE CodecInv'
  OBVIOUS
<1>0. CodecTypes /\ WriteInv /\ ReadInv
  BY DEF CodecInv
<1>1. CASE ServerSends
  <2>1. WriteInv'
    BY <1>0, <1>1 DEF ServerSends, WriteInv
  <2> QED BY <1>0, <1>1, <2>1, ServerSendsStep DEF CodecInv
<1>2. CASE StartRead \/ UNCHANGED telnetVars
  BY <1>0, <1>2, OtherStep
<1>11. CASE ServerHangsUp
  <2>1. WriteInv'
    BY <1>0, <1>11 DEF ServerHangsUp, WriteInv
  <2> QED BY <1>0, <1>11, <2>1, HangsUpStep DEF CodecInv
<1>3. CASE \E input \in Inputs : Write(input)
  BY <1>0, <1>3, WriteStep
<1>4. CASE Fill
  <2>1. WriteInv'
    BY <1>0, <1>4 DEF Fill, WriteInv
  <2> QED BY <1>0, <1>4, <2>1, FillStep DEF CodecInv
<1>5. ASSUME ReadKept, UNCHANGED <<items, inputs, wire, lost, out, hungUp>> PROVE CodecInv'
  BY <1>0, <1>5 DEF ReadKept, CodecInv, CodecTypes, WriteInv
<1>6. CASE ReadFails
  BY <1>0, <1>5, <1>6, ReadFailsStep DEF ReadFails
<1>7. CASE ReadData
  BY <1>0, <1>5, <1>7, ReadDataStep DEF ReadData
<1>8. CASE HandleCommand
  BY <1>0, <1>5, <1>8, HandleCommandStep DEF HandleCommand
<1>9. CASE RespondNegotiation
  <2>1. UNCHANGED <<items, inputs, wire, lost, hungUp>>
    BY <1>9 DEF RespondNegotiation
  <2>2. ReadKept /\ out' \in Seq(Alphabet) /\ WriteInv'
    BY <1>0, <1>9, RespondNegotiationStep
  <2> QED BY <1>0, <2>1, <2>2 DEF ReadKept, CodecInv, CodecTypes
<1>10. CASE SkipSubnegotiation
  BY <1>0, <1>5, <1>10, SkipSubnegotiationStep DEF SkipSubnegotiation
<1> QED
  BY <1>1, <1>2, <1>3, <1>4, <1>6, <1>7, <1>8, <1>9, <1>10, <1>11 DEF TelnetNext

(* A sequence is a prefix of what it begins.                               *)
LEMMA Prefix ==
  ASSUME NEW S, NEW s \in Seq(S), NEW t \in Seq(S)
  PROVE  IsPrefix(s, s \o t)
<1>1. Len(s) \in Nat /\ Len(t) \in Nat /\ Len(s \o t) = Len(s) + Len(t)
  OBVIOUS
<1>2. SubSeq(s \o t, 1, Len(s)) = SubSeq(s, 1, Len(s))
  <2>1. CASE s = <<>>
    <3>1. Len(s) = 0 /\ 0 < 1
      BY <2>1
    <3> QED BY <3>1, SubSeqEmpty
  <2>2. CASE s # <<>>
    <3>1. 1 \in 1..Len(s) /\ Len(s) \in 1..Len(s)
      BY <1>1, <2>2
    <3> QED BY <3>1, SubSeqOfConcat1
  <2> QED BY <2>1, <2>2
<1> QED BY <1>1, <1>2 DEF IsPrefix

(* A sequence joined of two is taken apart where they meet.                *)
LEMMA TakenApart ==
  ASSUME NEW S, NEW s \in Seq(S), NEW t \in Seq(S)
  PROVE  /\ SubSeq(s \o t, 1, Len(s)) = s
         /\ SubSeq(s \o t, Len(s) + 1, Len(s \o t)) = t
         /\ t # <<>> => SubSeq(s \o t, Len(s) + 2, Len(s \o t)) = Tail(t)
<1>1. /\ s \o t \in Seq(S) /\ Len(s) \in Nat /\ Len(t) \in Nat /\ Len(s \o t) = Len(s) + Len(t)
      /\ \A i \in 1..Len(s) : (s \o t)[i] = s[i]
      /\ \A i \in 1..Len(t) : (s \o t)[Len(s) + i] = t[i]
  OBVIOUS
<1> DEFINE u == s \o t
<1> HIDE DEF u
<1>2. SubSeq(u, 1, Len(s)) = s
  <2>1. SubSeq(u, 1, Len(s)) \in Seq(S) /\ Len(SubSeq(u, 1, Len(s))) = Len(s)
    BY <1>1 DEF u
  <2>2. \A i \in 1..Len(s) : SubSeq(u, 1, Len(s))[i] = s[i]
    BY <1>1 DEF u
  <2> QED BY <2>1, <2>2, SeqEqual
<1>3. SubSeq(u, Len(s) + 1, Len(u)) = t
  <2>1. SubSeq(u, Len(s) + 1, Len(u)) \in Seq(S) /\ Len(SubSeq(u, Len(s) + 1, Len(u))) = Len(t)
    BY <1>1 DEF u
  <2>2. \A i \in 1..Len(t) : SubSeq(u, Len(s) + 1, Len(u))[i] = t[i]
    BY <1>1 DEF u
  <2> QED BY <2>1, <2>2, SeqEqual
<1>4. ASSUME t # <<>> PROVE SubSeq(u, Len(s) + 2, Len(u)) = Tail(t)
  <2>0. u \in Seq(S) /\ Len(u) = Len(s) + Len(t) /\ Len(t) \in Nat \ {0}
    BY <1>1, <1>4 DEF u
  <2>1. SubSeq(u, Len(s) + 2, Len(u)) \in Seq(S) /\ Len(SubSeq(u, Len(s) + 2, Len(u))) = Len(t) - 1
    <3>1. PICK m \in Nat : m = Len(s) + 2 /\ m <= Len(u) + 1 /\ m >= 1
      BY <1>1, <2>0
    <3>2. SubSeq(u, m, Len(u)) \in Seq(S)
      <4>1. \A i \in m..Len(u) : u[i] \in S
        BY <2>0, <3>1
      <4> QED BY <2>0, <3>1, <4>1, SubSeqProperties
    <3>3. Len(SubSeq(u, m, Len(u))) = Len(u) + 1 - m
      BY <2>0, <3>1
    <3>4. Len(u) + 1 - m = Len(t) - 1
      <4>1. Len(s) \in Nat
        OBVIOUS
      <4> QED BY <2>0, <3>1, <4>1
    <3>5. SubSeq(u, m, Len(u)) \in Seq(S) /\ Len(SubSeq(u, m, Len(u))) = Len(t) - 1
      BY <3>2, <3>3, <3>4
    <3> QED BY <3>1, <3>5, Zenon
  <2>2. \A i \in 1..Len(t) - 1 : SubSeq(u, Len(s) + 2, Len(u))[i] = t[i+1]
    BY <1>1, <1>4 DEF u
  <2>3. Tail(t) \in Seq(S) /\ Len(Tail(t)) = Len(t) - 1 /\ \A i \in 1..Len(t) - 1 : Tail(t)[i] = t[i+1]
    BY <1>4
  <2> QED BY <2>1, <2>2, <2>3, SeqEqual
<1> QED BY <1>2, <1>3, <1>4 DEF u

(* What is lost begins in the first of the items left.                     *)
LostIn(left) ==
  /\ Len(lost) <= Len(Cat(Encoded, left))
  /\ left # <<>> => Len(Cat(Encoded, Tail(left))) < Len(lost)

(* The items are those handled and those left; when nothing is left to     *)
(* read, only what is lost keeps an item from being handled.               *)
LEMMA HandledSoFar ==
  ASSUME CodecInv
  PROVE  \E read \in Seq(Items), left \in Seq(Items) :
           Handled(read) /\ items = read \o left /\ (AllRead => LostIn(left))
<1>1. PICK done \in Seq(Items), todo \in Seq(Items) :
        /\ Handled(done)
        /\ \/ Between(done, todo)
           \/ \E item \in Items : \E k \in 1..Len(Encoded[item]) - 1 : Midway(done, item, k, todo)
           \/ \E item \in Items : CutOff(done, item, todo)
  BY DEF CodecInv, ReadInv
<1>2. ASSUME NEW item \in Items, items = Append(done, item) \o todo
      PROVE  /\ <<item>> \o todo \in Seq(Items) /\ items = done \o (<<item>> \o todo)
             /\ <<item>> \o todo # <<>> /\ Tail(<<item>> \o todo) = todo
             /\ Len(Cat(Encoded, <<item>> \o todo)) = Len(Encoded[item]) + Len(Cat(Encoded, todo))
  <2>1. <<item>> \in Seq(Items) /\ Append(done, item) = done \o <<item>>
    BY AppendIsConcat
  <2>2. Associates(done, <<item>>, todo)
    BY <2>1, Associative
  <2>3. Joined(Encoded, <<item>>, todo) /\ Cat(Encoded, <<item>>) = Encoded[item]
    BY <2>1, ItemSums
  <2>4. Encoded[item] \in Seq(Alphabet) /\ Cat(Encoded, todo) \in Seq(Alphabet)
    BY ItemSums
  <2>5. <<item>> \o todo # <<>> /\ Tail(<<item>> \o todo) = todo
    OBVIOUS
  <2>6. <<item>> \o todo \in Seq(Items) /\ items = done \o (<<item>> \o todo)
    BY <1>2, <2>1, <2>2 DEF Associates
  <2>7. Cat(Encoded, <<item>> \o todo) = Encoded[item] \o Cat(Encoded, todo)
    BY <2>3 DEF Joined
  <2>8. Len(Encoded[item] \o Cat(Encoded, todo)) = Len(Encoded[item]) + Len(Cat(Encoded, todo))
    BY <2>4
  <2> QED BY <2>5, <2>6, <2>7, <2>8
<1>3. CASE Between(done, todo)
  <2>1. ASSUME AllRead PROVE LostIn(todo)
    <3>1. lost = Cat(Encoded, todo) /\ lost \in Seq(Alphabet)
      <4>1. lost \in Seq(Alphabet) /\ <<>> \o (<<>> \o lost) = lost
        BY ConcatEmptySeq DEF CodecInv, CodecTypes
      <4> QED BY <1>3, <2>1, <4>1 DEF AllRead, Between, Coming
    <3>2. ASSUME todo # <<>> PROVE Len(Cat(Encoded, Tail(todo))) < Len(lost)
      <4>1. Head(todo) \in Items /\ Tail(todo) \in Seq(Items) /\ todo = <<Head(todo)>> \o Tail(todo)
        BY <3>2
      <4>2. PICK first \in Items, rest \in Seq(Items) :
              rest = Tail(todo) /\ todo = <<first>> \o rest
        BY <4>1
      <4>3. Joined(Encoded, <<first>>, rest) /\ Cat(Encoded, <<first>>) = Encoded[first]
        <5>1. <<first>> \in Seq(Items)
          OBVIOUS
        <5> QED BY <5>1, ItemSums
      <4>4. Encoded[first] \in Seq(Alphabet) /\ Cat(Encoded, rest) \in Seq(Alphabet)
        BY ItemSums
      <4>5. Len(Encoded[first]) > 0
        BY EncodedBytes
      <4> DEFINE a == Encoded[first]
                 b == Cat(Encoded, rest)
      <4>6. a \in Seq(Alphabet) /\ b \in Seq(Alphabet) /\ Len(a) > 0 /\ lost = a \o b
        BY <3>1, <4>2, <4>3, <4>4, <4>5 DEF Joined
      <4> HIDE DEF a, b
      <4>7. Len(b) < Len(lost)
        BY <4>6
      <4> QED BY <4>2, <4>7 DEF b
    <3>3. Len(lost) <= Len(Cat(Encoded, todo))
      BY <3>1
    <3> QED BY <3>2, <3>3 DEF LostIn
  <2> QED BY <1>1, <1>3, <2>1 DEF Between
<1>4. ASSUME NEW item \in Items, NEW k \in 1..Len(Encoded[item]) - 1, Midway(done, item, k, todo)
      PROVE  /\ <<item>> \o todo \in Seq(Items) /\ items = done \o (<<item>> \o todo)
             /\ ~AllRead
  BY <1>2, <1>4 DEF Midway, Where, AllRead
<1>5. ASSUME NEW item \in Items, CutOff(done, item, todo)
      PROVE  /\ <<item>> \o todo \in Seq(Items) /\ items = done \o (<<item>> \o todo)
             /\ LostIn(<<item>> \o todo)
  BY <1>2, <1>5 DEF CutOff, LostIn
<1> QED BY <1>1, <1>3, <1>4, <1>5

(* Every TelnetSpec behaviour keeps the invariant.                         *)
LEMMA CodecInvariant == TelnetSpec => []CodecInv
  BY CodecInitially, CodecStep, PTL DEF TelnetSpec

(* Whatever the server sends, wherever the network splits it, with Reads   *)
(* of any length, the pump gets the text of the items in order; after a    *)
(* hang-up, wherever it cuts the stream, that of every item that arrived   *)
(* whole and of no other (telnet.go, Read and handleCommand).              *)
THEOREM TextAlwaysDelivered == TelnetSpec => []DeliversText
<1>1. CodecInv => DeliversText
  <2> SUFFICES ASSUME CodecInv PROVE DeliversText
    OBVIOUS
  <2>1. PICK read \in Seq(Items), left \in Seq(Items) :
          Handled(read) /\ items = read \o left /\ (AllRead => LostIn(left))
    BY HandledSoFar
  <2> DEFINE n == Len(read)
  <2>2. /\ n \in Nat /\ n \in 0..Len(items) /\ (n < Len(items) => left # <<>>)
        /\ Tail(left) \in Seq(Items) \/ left = <<>>
    BY <2>1
  <2>3. /\ SubSeq(items, 1, n) = read /\ SubSeq(items, n + 1, Len(items)) = left
        /\ left # <<>> => SubSeq(items, n + 2, Len(items)) = Tail(left)
    BY <2>1, TakenApart
  <2>4. delivered \o p = Each(TextOf, SubSeq(items, 1, n))
    BY <2>1, <2>3, EachOf DEF Handled
  <2>5. ASSUME AllRead PROVE Arrived(n)
    <3>1. Len(lost) <= Len(Each(LAMBDA item : Encoded[item], SubSeq(items, n + 1, Len(items))))
      BY <2>1, <2>3, <2>5, EachEncoded DEF LostIn
    <3>2. ASSUME n < Len(items)
          PROVE  Len(Each(LAMBDA item : Encoded[item], SubSeq(items, n + 2, Len(items)))) < Len(lost)
      BY <2>1, <2>2, <2>3, <2>5, <3>2, EachEncoded DEF LostIn
    <3>3. (n + 1) + 1 = n + 2
      BY <2>2
    <3> HIDE DEF n
    <3> QED BY <3>1, <3>2, <3>3 DEF Arrived
  <2> HIDE DEF n
  <2> QED BY <2>2, <2>4, <2>5 DEF DeliversText
<1> QED BY <1>1, CodecInvariant, PTL

(* The server gets the user's input byte for byte, and one refusal of each *)
(* option it asked for or offered, in order, although Write and Read's     *)
(* replies share the stream (telnet.go, Write and respondNegotiation).     *)
THEOREM ServerAlwaysUnderstands == TelnetSpec => []ServerUnderstands
<1>1. CodecInv => ServerUnderstands
  <2> SUFFICES ASSUME CodecInv PROVE ServerUnderstands
    OBVIOUS
  <2>1. PICK read \in Seq(Items), left \in Seq(Items) :
          Handled(read) /\ items = read \o left /\ (AllRead => LostIn(left))
    BY HandledSoFar
  <2>9. Cat(Refusals, items) = Cat(Refusals, read) \o Cat(Refusals, left)
    <3>1. Joined(Refusals, read, left)
      BY ItemSums
    <3> QED BY <2>1, <3>1 DEF Joined
  <2>10. ASSUME AllRead, ~hungUp, left # <<>> PROVE FALSE
    <3>1. lost = <<>> /\ Len(Cat(Encoded, Tail(left))) < Len(lost)
      BY <2>1, <2>10 DEF LostIn, CodecInv, CodecTypes
    <3>2. Len(Cat(Encoded, Tail(left))) \in Nat
      <4>1. Tail(left) \in Seq(Items)
        BY <2>10
      <4>2. Cat(Encoded, Tail(left)) \in Seq(Alphabet)
        BY <4>1, ItemSums
      <4> QED BY <4>2
    <3> QED BY <3>1, <3>2
  <2>2. Each(AnswerTo, items) = Cat(Refusals, items)
    BY EachOf DEF CodecInv, CodecTypes
  <2>3. /\ Cat(Refusals, read) \in Seq(Alphabet) /\ Cat(Refusals, left) \in Seq(Alphabet)
        /\ Cat(Refusals, <<>>) = <<>>
    BY ItemSums
  <2>4. ServerView = Seen(<<>>, FlattenSeq(inputs), Viewed(out).refused)
    BY ServerViewed DEF CodecInv, WriteInv, Heard
  <2>5. /\ ServerView.after = <<>> /\ ServerView.text = FlattenSeq(inputs)
        /\ ServerView.refused = Viewed(out).refused
    BY <2>4 DEF Seen
  <2>6. hungUp \/ ServerView.refused = Cat(Refusals, read)
    BY <2>1, <2>5 DEF Handled
  <2>7. IsPrefix(ServerView.refused, Cat(Refusals, items)) \/ hungUp
    BY <2>1, <2>3, <2>6, <2>9, Prefix
  <2>8. AllRead /\ ~hungUp => ServerView.refused = Cat(Refusals, items)
    <3>1. Cat(Refusals, read) \o <<>> = Cat(Refusals, read)
      BY <2>3, ConcatEmptySeq
    <3> QED BY <2>3, <2>6, <2>9, <2>10, <3>1
  <2> QED BY <2>2, <2>5, <2>7, <2>8 DEF ServerUnderstands
<1> QED BY <1>1, CodecInvariant, PTL
=============================================================================
