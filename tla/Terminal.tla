------------------------------ MODULE Terminal ------------------------------
(***************************************************************************)
(* The terminal's interpreter of protocol output (ansiState), one byte per *)
(* step, as the UI goroutine feeds it.  A byte stands for the class the    *)
(* code's switches put it in.  Colours and bold are left out.              *)
(***************************************************************************)
EXTENDS Integers, SequencesExt

CONSTANTS Rows, Cols,   \* size of the grid
          TabWidth,     \* distance of the tab stops (8 in the code)
          Slices,       \* the arrays of cells a grid row can refer to
          Blank, Glyph, \* a cell without and with text
          Digits,
          MaxBytes      \* bound of the model: digits and ; in one CSI sequence

ASSUME TerminalAssumption ==
  /\ Rows \in Nat \ {0} /\ Cols \in Nat \ {0} /\ TabWidth \in Nat \ {0}
  /\ Digits \subseteq 0..9
  /\ MaxBytes \in 0..18   \* so that every number fits Go's int
  /\ Blank # Glyph

RowIndex == 0..(Rows - 1)
ColIndex == 0..(Cols - 1)

VARIABLES rows,       \* grid.Rows: the slice of cells each row refers to
          cells,      \* contents of the slices
          row, col,   \* the cursor
          mode,
          params, paramAccum, haveParam,
          typed,      \* history: the digits of each number of the sequence
          terminator  \* history: bytes of ESC \ just seen in an OSC payload

gridVars == <<rows, cells>>
cursorVars == <<row, col>>
paramVars == <<params, paramAccum, haveParam>>
historyVars == <<typed, terminator>>
vars == <<gridVars, cursorVars, mode, paramVars, historyVars>>

BlankLine == [c \in ColIndex |-> Blank]

(* MUTANT of ResetGrid: one slice is made for all rows.                    *)
ResetGridOnce ==
  /\ \E s \in Slices : rows' = [r \in RowIndex |-> s]
  /\ cells' = [s \in Slices |-> BlankLine]
  /\ row' = 0 /\ col' = 0

(* resetGrid: new slices for every row.  Nothing refers to the old ones any *)
(* more, so their contents are of no interest.                              *)
ResetGrid ==
  /\ rows' \in Injection(RowIndex, Slices)
  /\ cells' = [s \in Slices |-> BlankLine]
  /\ row' = 0 /\ col' = 0

Init ==
  /\ rows \in Injection(RowIndex, Slices)
  /\ cells = [s \in Slices |-> BlankLine]
  /\ row = 0 /\ col = 0
  /\ mode = "normal"
  /\ params = <<>> /\ paramAccum = 0 /\ haveParam = FALSE
  /\ typed = <<>> /\ terminator = 0

-----------------------------------------------------------------------------
(* Text and control characters.                                            *)

Least(a, b) == IF a < b THEN a ELSE b
Max0(v) == IF v < 0 THEN 0 ELSE v
Clamp(v, lo, hi) == IF v < lo THEN lo ELSE Least(v, hi)

Written(line, columns) == [c \in ColIndex |-> IF c \in columns THEN Glyph ELSE line[c]]

(* MUTANT of BottomSlice: the rows are copied up and the last one keeps    *)
(* its slice, only emptied.                                                *)
BottomSliceKept == {rows[Rows - 1]}

(* The new slice made for the last row when the grid scrolls.              *)
BottomSlice == Slices \ Range(rows)

(* newline, and the text put at the start of the new line when put wraps.  *)
(* At the bottom every row takes over the slice of the row below; a slice  *)
(* nothing refers to any more is read as blank.                            *)
NewLine(columns) ==
  \/ /\ row < Rows - 1
     /\ row' = row + 1
     /\ cells' = [cells EXCEPT ![rows[row + 1]] = Written(@, columns)]
     /\ rows' = rows
  \/ /\ row = Rows - 1
     /\ row' = row
     /\ \E fresh \in BottomSlice :
          /\ rows' = [r \in RowIndex |-> IF r = Rows - 1 THEN fresh ELSE rows[r + 1]]
          /\ cells' = [s \in Slices |->
               IF s = fresh THEN Written(BlankLine, columns)
               ELSE IF s \in Range(rows') THEN cells[s] ELSE BlankLine]

Normal == mode = "normal" /\ UNCHANGED <<paramVars, historyVars>>

PutInLine ==
  /\ Normal
  /\ col < Cols
  /\ cells' = [cells EXCEPT ![rows[row]] = Written(@, {col})]
  /\ col' = col + 1
  /\ UNCHANGED <<rows, row, mode>>

PutWrapping ==
  /\ Normal
  /\ col >= Cols
  /\ NewLine({0})
  /\ col' = 1
  /\ mode' = mode

LineFeed ==
  /\ Normal
  /\ NewLine({})
  /\ UNCHANGED <<col, mode>>

CarriageReturn ==
  /\ Normal
  /\ col' = 0
  /\ UNCHANGED <<gridVars, row, mode>>

(* MUTANT of Backspace: the test for the first column is missing.          *)
BackspaceAnywhere ==
  /\ Normal
  /\ col' = col - 1
  /\ UNCHANGED <<gridVars, row, mode>>

Backspace ==
  /\ Normal
  /\ col' = IF col > 0 THEN col - 1 ELSE col
  /\ UNCHANGED <<gridVars, row, mode>>

Tab ==
  /\ Normal
  /\ col' = Least((col \div TabWidth + 1) * TabWidth, Cols - 1)
  /\ UNCHANGED <<gridVars, row, mode>>

Escape ==
  /\ Normal
  /\ mode' = "esc"
  /\ UNCHANGED <<gridVars, cursorVars>>

-----------------------------------------------------------------------------
(* After ESC, and the discarded payload of an OSC sequence.                *)

OpenCSI ==
  /\ mode = "esc"
  /\ mode' = "csi"
  /\ params' = <<>> /\ paramAccum' = 0 /\ haveParam' = FALSE
  /\ typed' = << <<>> >>
  /\ UNCHANGED <<gridVars, cursorVars, terminator>>

OpenOSC ==
  /\ mode = "esc"
  /\ mode' = "osc"
  /\ UNCHANGED <<gridVars, cursorVars, paramVars, historyVars>>

DropEscape ==
  /\ mode = "esc"
  /\ mode' = "normal"
  /\ UNCHANGED <<gridVars, cursorVars, paramVars, historyVars>>

Bell ==
  /\ mode = "osc"
  /\ mode' = "normal"
  /\ terminator' = 0
  /\ UNCHANGED <<gridVars, cursorVars, paramVars, typed>>

(* Any other byte: seen counts how much of ESC \ it completes.             *)
Discard(seen) ==
  /\ mode = "osc"
  /\ seen = 2 => terminator = 1
  /\ terminator' = seen
  /\ UNCHANGED <<gridVars, cursorVars, mode, paramVars, typed>>

-----------------------------------------------------------------------------
(* CSI sequences: numbers separated by ; and a last byte, the command.     *)

InBounds == Len(typed) + Len(FlattenSeq(typed)) <= MaxBytes

Digit(d) ==
  /\ mode = "csi"
  /\ InBounds
  /\ paramAccum' = paramAccum * 10 + d
  /\ haveParam' = TRUE
  /\ typed' = [typed EXCEPT ![Len(typed)] = Append(@, d)]
  /\ UNCHANGED <<gridVars, cursorVars, mode, params, terminator>>

(* MUTANT of Separator: the number read so far is not reset.               *)
SeparatorRunsOn ==
  /\ mode = "csi"
  /\ InBounds
  /\ params' = Append(params, paramAccum)
  /\ typed' = Append(typed, <<>>)
  /\ UNCHANGED <<gridVars, cursorVars, mode, paramAccum, haveParam, terminator>>

Separator ==
  /\ mode = "csi"
  /\ InBounds
  /\ params' = Append(params, paramAccum)
  /\ paramAccum' = 0 /\ haveParam' = FALSE
  /\ typed' = Append(typed, <<>>)
  /\ UNCHANGED <<gridVars, cursorVars, mode, terminator>>

Numbers == IF haveParam \/ params = <<>> THEN Append(params, paramAccum) ELSE params

Param(i, default) ==
  IF i > Len(Numbers) THEN default
  ELSE IF Numbers[i] = 0 THEN default ELSE Numbers[i]

(* What every last byte does.  The parameters stay until the next [.       *)
Command ==
  /\ mode = "csi"
  /\ mode' = "normal"
  /\ params' = Numbers
  /\ typed' = <<>>
  /\ UNCHANGED <<paramAccum, haveParam, terminator>>

MoveTo(r, c) ==
  /\ Command
  /\ row' = r /\ col' = c
  /\ UNCHANGED gridVars

CursorUp == MoveTo(Max0(row - Param(1, 1)), col)
CursorDown == MoveTo(Least(Rows - 1, row + Param(1, 1)), col)
CursorForward == MoveTo(row, Least(Cols - 1, col + Param(1, 1)))
CursorBack == MoveTo(row, Max0(col - Param(1, 1)))
CursorPosition ==
  MoveTo(Clamp(Param(1, 1) - 1, 0, Rows - 1), Clamp(Param(2, 1) - 1, 0, Cols - 1))

Blanked(region) ==
  cells' = [s \in Slices |-> [c \in ColIndex |->
    IF \E r \in RowIndex : rows[r] = s /\ <<r, c>> \in region THEN Blank ELSE cells[s][c]]]

InPlace == rows' = rows /\ UNCHANGED cursorVars

Line == {row} \X ColIndex

(* The cells of the line from the cursor on and up to the cursor.          *)
LineFromCursor == {row} \X {c \in ColIndex : c >= col}
LineToCursor == {row} \X {c \in ColIndex : c <= col}

Above == {r \in RowIndex : r < row} \X ColIndex
Below == {r \in RowIndex : r > row} \X ColIndex

EraseDisplay ==
  /\ Command
  /\ \/ Numbers[1] \in {2, 3} /\ ResetGrid
     \/ Numbers[1] = 0 /\ Blanked(LineFromCursor \cup Below) /\ InPlace
     \/ Numbers[1] = 1 /\ Blanked(LineToCursor \cup Above) /\ InPlace
     \/ Numbers[1] > 3 /\ UNCHANGED <<gridVars, cursorVars>>

EraseLine ==
  /\ Command
  /\ InPlace
  /\ \/ Numbers[1] = 0 /\ Blanked(LineFromCursor)
     \/ Numbers[1] = 1 /\ Blanked(LineToCursor)
     \/ Numbers[1] = 2 /\ Blanked(Line)
     \/ Numbers[1] > 2 /\ cells' = cells

(* Colours (not modelled) and the commands the code ignores.               *)
OtherCommand ==
  /\ Command
  /\ UNCHANGED <<gridVars, cursorVars>>

FeedText ==
  \/ PutInLine \/ PutWrapping \/ LineFeed \/ CarriageReturn \/ Backspace \/ Tab \/ Escape

FeedEscape ==
  \/ OpenCSI \/ OpenOSC \/ DropEscape
  \/ Bell
  \/ \E seen \in 0..2 : Discard(seen)

FeedCSI ==
  \/ \E d \in Digits : Digit(d)
  \/ Separator
  \/ CursorUp \/ CursorDown \/ CursorForward \/ CursorBack \/ CursorPosition
  \/ EraseDisplay \/ EraseLine \/ OtherCommand

Next == FeedText \/ FeedEscape \/ FeedCSI

Spec == Init /\ [][Next]_vars

-----------------------------------------------------------------------------
(* The fields keep their types, and the cursor never leaves the grid but   *)
(* for the column after the last, where put leaves it (ansi.go:131): every *)
(* index into rows and cells that follows is in range.                     *)
ScreenOK ==
  /\ rows \in [RowIndex -> Slices]
  /\ cells \in [Slices -> [ColIndex -> {Blank, Glyph}]]
  /\ row \in RowIndex
  /\ col \in 0..Cols

ParserOK ==
  /\ mode \in {"normal", "esc", "csi", "osc"}
  /\ params \in Seq(Nat)
  /\ paramAccum \in Nat
  /\ haveParam \in BOOLEAN
  /\ typed \in Seq(Seq(Digits))
  /\ terminator \in 0..2
  /\ mode = "csi" => typed # <<>>

TypeOK == ScreenOK /\ ParserOK

(* No two rows of the grid share their cells, however often the grid has   *)
(* scrolled or been reset: text written to one line does not show up in    *)
(* another (newline, resetGrid).                                           *)
RowsNotShared == \A r, q \in RowIndex : rows[r] = rows[q] => r = q

Shown(r, c) == cells[rows[r]][c]

(* Text appears in a cell of the display only where the cursor stood, just *)
(* before where it stands now, or by being moved up one line from a grid   *)
(* whose cursor is in the last line.                                       *)
TextAppearsAtCursor ==
  [][\A r \in RowIndex, c \in ColIndex :
       Shown(r, c) = Blank /\ Shown(r, c)' = Glyph =>
         \/ r = row' /\ c = col' - 1
         \/ row = Rows - 1 /\ r < Rows - 1 /\ Shown(r + 1, c) = Glyph]_vars

Value(digits) == FoldLeft(LAMBDA n, d : 10 * n + d, 0, digits)

(* A command acts on the numbers that were written: the i-th number of the *)
(* sequence is the i-th parameter, and a number that is missing, empty or  *)
(* zero gives the command's default (feedCSI's p, firstParam).             *)
NumbersReachTheCommand ==
  mode = "csi" =>
    /\ \A i \in 1..(MaxBytes + 2) : \A default \in {0, 1} :
         LET n == IF i <= Len(typed) THEN Value(typed[i]) ELSE 0
         IN  Param(i, default) = IF n = 0 THEN default ELSE n
    /\ Numbers[1] = Value(typed[1])

(* ansi.go:80-85: a payload that ends with ESC \ instead of BEL re-enters  *)
(* modeEsc with its ESC and is over after the next byte.                   *)
OscEndsAtST == mode = "osc" => terminator # 2
=============================================================================
