------------------------------ MODULE Console ------------------------------
(***************************************************************************)
(* The text console and its line consumers: the Terminal of vga.rs (the    *)
(* process-wide TERMINAL), the shell line buffer of shell.rs, the editor   *)
(* stub of editor.rs, the keyboard routing of keyboard.rs, the log macros  *)
(* of log.rs and the panic path of lib.rs.                                 *)
(*                                                                         *)
(* Terminal methods are pure operators on a record `term` with the fields  *)
(* of the struct (row, column, color), the framebuffer `screen` (cell      *)
(* y * VGA_WIDTH + x -> [c, a], character and attribute), the CRTC cursor  *)
(* position `cursor`, and a history field `out`: the characters and line   *)
(* breaks written since the last clear.  A call of a consumer (a log line, *)
(* a key, the panic) is one action that runs its Terminal calls in order.  *)
(* No interrupt is ever delivered (see Interrupts), so no two calls        *)
(* interleave.  Characters are byte values; strings are byte sequences.    *)
(***************************************************************************)
EXTENDS Integers, Sequences, SequencesExt

CONSTANTS
    VGA_WIDTH, VGA_HEIGHT,
    BUF_LEN,        \* BUFFER.len() of shell.rs (256)
    WELCOME, PROMPT, HELP, HELP_TEXT,   \* the shell's strings
    EDITOR_MSG,     \* "[EDITOR] not implemented"
    SAD, BANNER,    \* the panic path's ":(" and banner lines
    Msgs,           \* formatted log messages and panic locations
    Keys,           \* scancodes the keyboard delivers
    MaxOut          \* bound on the history since the last clear

NL    == 10
SPACE == 32
None  == -1
LightGreyOnBlack == 7              \* make_color(LightGrey, Black)
BlackOnRed       == 4 * 16         \* make_color(Black, Red)
Cells == 0 .. VGA_WIDTH * VGA_HEIGHT - 1

VARIABLES
    pc,       \* "boot" before TERMINAL.initialize, "up", "halted" after a panic
    term,     \* TERMINAL, with the framebuffer and the CRTC cursor
    BUFFER, INDEX,   \* the shell's line buffer
    ACTIVE           \* editor::ACTIVE

vars == <<pc, term, BUFFER, INDEX, ACTIVE>>

Blank(a) == [c |-> SPACE, a |-> a]

\* A line break in the history `out`.
Break == [c |-> NL, a |-> -1]

-----------------------------------------------------------------------------
(* Terminal (vga.rs).                                                      *)

\* update_cursor: the CRTC gets row * VGA_WIDTH + column.
UpdateCursor(t) == [t EXCEPT !.cursor = t.row * VGA_WIDTH + t.column]

\* A scroll that moves the rows up but leaves the bottom row as it was.
Scroll_KeepsLastRow(t) ==
    [i \in Cells |-> IF i < (VGA_HEIGHT - 1) * VGA_WIDTH THEN t.screen[i + VGA_WIDTH]
                     ELSE t.screen[i]]

\* scroll: every row moves up one; the bottom row is blanked in the
\* current color.
Scroll(t) ==
    [i \in Cells |-> IF i < (VGA_HEIGHT - 1) * VGA_WIDTH THEN t.screen[i + VGA_WIDTH]
                     ELSE Blank(t.color)]

\* new_line: column 0, next row, scrolling at the bottom; then the cursor.
NewLine(t) ==
    UpdateCursor(IF t.row + 1 = VGA_HEIGHT
                 THEN [t EXCEPT !.column = 0, !.screen = Scroll(t), !.row = VGA_HEIGHT - 1]
                 ELSE [t EXCEPT !.column = 0, !.row = @ + 1])

\* putchar: '\n' is a new line; any other byte is stored at the cursor in
\* the current color, and the line wraps when the column reaches the width.
PutChar(t, c) ==
    IF c = NL THEN NewLine([t EXCEPT !.out = Append(@, Break)])
    ELSE LET e  == [c |-> c, a |-> t.color]
             t1 == [t EXCEPT !.screen[t.row * VGA_WIDTH + t.column] = e,
                             !.column = @ + 1, !.out = Append(@, e)]
         IN UpdateCursor(IF t1.column = VGA_WIDTH THEN NewLine(t1) ELSE t1)

WriteString(t, s) == FoldLeft(PutChar, t, s)

WriteLine(t, s) == NewLine([WriteString(t, s) EXCEPT !.out = Append(@, Break)])

\* clear (and initialize, which leaves the CRTC cursor where it was).
Clear(t) ==
    UpdateCursor([t EXCEPT !.screen = [i \in Cells |-> Blank(t.color)],
                           !.row = 0, !.column = 0, !.out = <<>>])

Initialize(t) ==
    [t EXCEPT !.color = LightGreyOnBlack,
              !.screen = [i \in Cells |-> Blank(LightGreyOnBlack)],
              !.row = 0, !.column = 0, !.out = <<>>]

-----------------------------------------------------------------------------
(* scancode_to_ascii: the make codes of the table, None for the rest.      *)
ScanAscii ==
    (2 :> 49) @@ (3 :> 50) @@ (4 :> 51) @@ (5 :> 52) @@ (6 :> 53) @@ (7 :> 54)
    @@ (8 :> 55) @@ (9 :> 56) @@ (10 :> 57) @@ (11 :> 48) @@ (12 :> 45) @@ (13 :> 61)
    @@ (14 :> 0) @@ (15 :> 9) @@ (16 :> 113) @@ (17 :> 119) @@ (18 :> 101) @@ (19 :> 114)
    @@ (20 :> 116) @@ (21 :> 121) @@ (22 :> 117) @@ (23 :> 105) @@ (24 :> 111) @@ (25 :> 112)
    @@ (28 :> NL) @@ (30 :> 97) @@ (31 :> 115) @@ (32 :> 100) @@ (33 :> 102) @@ (34 :> 103)
    @@ (35 :> 104) @@ (36 :> 106) @@ (37 :> 107) @@ (38 :> 108) @@ (44 :> 122) @@ (45 :> 120)
    @@ (46 :> 99) @@ (47 :> 118) @@ (48 :> 98) @@ (49 :> 110) @@ (50 :> 109) @@ (57 :> SPACE)

scancode_to_ascii(sc) == IF sc \in DOMAIN ScanAscii THEN ScanAscii[sc] ELSE None

-----------------------------------------------------------------------------
(* The static TERMINAL is const-initialised (row 0, column 0, color 0); the *)
(* framebuffer and the CRTC hold what the firmware left.                   *)
Init ==
    /\ pc = "boot"
    /\ term = [row |-> 0, column |-> 0, color |-> 0, cursor |-> 0, out |-> <<>>,
               screen |-> [i \in Cells |-> [c |-> 66, a |-> LightGreyOnBlack]]]
    /\ BUFFER = [i \in 0 .. BUF_LEN - 1 |-> 0]
    /\ INDEX = 0
    /\ ACTIVE = FALSE

\* The next state of the terminal, within the history bound.
SetTerm(t) == /\ Len(t.out) <= MaxOut
              /\ term' = t

(* rust_main: TERMINAL.initialize() is the first call.                      *)
initialize ==
    /\ pc = "boot"
    /\ term' = Initialize(term)
    /\ pc' = "up"
    /\ UNCHANGED <<BUFFER, INDEX, ACTIVE>>

(* log::log(prefix, args): writestring(prefix), write_fmt(args),           *)
(* write_line(""); the prefix and the formatted arguments are one message. *)
log(m) ==
    /\ pc = "up"
    /\ SetTerm(WriteLine(WriteString(term, m), <<>>))
    /\ UNCHANGED <<pc, BUFFER, INDEX, ACTIVE>>

(* shell::init: the welcome line, then the prompt.                          *)
shell_init ==
    /\ pc = "up"
    /\ SetTerm(WriteString(WriteLine(term, WELCOME), PROMPT))
    /\ UNCHANGED <<pc, BUFFER, INDEX, ACTIVE>>

(* editor::start: ACTIVE, then its banner line.                              *)
editor_start ==
    /\ pc = "up"
    /\ ACTIVE' = TRUE
    /\ SetTerm(WriteLine(term, EDITOR_MSG))
    /\ UNCHANGED <<pc, BUFFER, INDEX>>

\* A handle_key that lets the line fill the whole buffer.
handle_key_FullBuffer(c) ==
    IF c = None THEN UNCHANGED <<term, BUFFER, INDEX>>
    ELSE IF c = NL
    THEN LET line == [i \in 1 .. INDEX |-> BUFFER[i - 1]]
             t1   == WriteLine(term, <<>>)
             t2   == IF line = HELP THEN WriteLine(t1, HELP_TEXT) ELSE t1
         IN /\ BUFFER' = [BUFFER EXCEPT ![INDEX] = 0]
            /\ INDEX' = 0
            /\ SetTerm(WriteString(t2, PROMPT))
    ELSE IF INDEX < BUF_LEN
    THEN /\ BUFFER' = [BUFFER EXCEPT ![INDEX] = c]
         /\ INDEX' = INDEX + 1
         /\ SetTerm(PutChar(term, c))
    ELSE UNCHANGED <<term, BUFFER, INDEX>>

(* shell::handle_key: Enter NUL-terminates the line, prints an empty line, *)
(* the help text if the line is "help", and the prompt; any other byte     *)
(* (backspace is 0) is stored and echoed while one slot is left for the    *)
(* terminator, and dropped after that.                                      *)
handle_key(c) ==
    IF c = None THEN UNCHANGED <<term, BUFFER, INDEX>>
    ELSE IF c = NL
    THEN LET line == [i \in 1 .. INDEX |-> BUFFER[i - 1]]
             t1   == WriteLine(term, <<>>)
             t2   == IF line = HELP THEN WriteLine(t1, HELP_TEXT) ELSE t1
         IN /\ BUFFER' = [BUFFER EXCEPT ![INDEX] = 0]
            /\ INDEX' = 0
            /\ SetTerm(WriteString(t2, PROMPT))
    ELSE IF INDEX < BUF_LEN - 1
    THEN /\ BUFFER' = [BUFFER EXCEPT ![INDEX] = c]
         /\ INDEX' = INDEX + 1
         /\ SetTerm(PutChar(term, c))
    ELSE UNCHANGED <<term, BUFFER, INDEX>>

\* editor::is_active.
is_active == ACTIVE

(* editor::handle_key, a placeholder: whatever the event (its comment says *)
(* "just exit on Enter"), it clears ACTIVE.                                *)
editor_handle_key == ACTIVE' = FALSE

(* keyboard_callback: the scancode's event goes to the editor while it is  *)
(* active (its handle_key only clears ACTIVE), else to the shell.  The EOI *)
(* it then sends is PIC state, modelled in Interrupts.                     *)
keyboard_callback(sc) ==
    /\ pc = "up"
    /\ IF is_active THEN /\ editor_handle_key
                         /\ UNCHANGED <<term, BUFFER, INDEX>>
                    ELSE /\ handle_key(scancode_to_ascii(sc))
                         /\ UNCHANGED ACTIVE
    /\ UNCHANGED pc

(* The panic handler: black on red, clear, ":(", the banner, the location *)
(* (formatted with a trailing "\n"), the banner, then loop {}. In no_std   *)
(* PanicInfo::payload() is never a &str, so the message branch never runs. *)
panic(loc) ==
    /\ pc = "up"
    /\ LET t0 == Clear([term EXCEPT !.color = BlackOnRed])
           t1 == WriteLine(WriteLine(t0, SAD), BANNER)
           t2 == WriteString(t1, loc \o <<NL>>)
       IN SetTerm(WriteLine(t2, BANNER))
    /\ pc' = "halted"
    /\ UNCHANGED <<BUFFER, INDEX, ACTIVE>>

Next ==
    \/ initialize
    \/ \E m \in Msgs : log(m)
    \/ shell_init
    \/ editor_start
    \/ \E sc \in Keys : keyboard_callback(sc)
    \/ \E l \in Msgs : panic(l)

Spec == Init /\ [][Next]_vars

-----------------------------------------------------------------------------
(* Properties.                                                             *)

Cell == [c : 0 .. 255, a : 0 .. 255]

TypeOK ==
    /\ pc \in {"boot", "up", "halted"}
    /\ term.row \in 0 .. VGA_HEIGHT - 1
    /\ term.column \in 0 .. VGA_WIDTH - 1
    /\ term.screen \in [Cells -> Cell]
    /\ term.cursor \in Cells
    /\ BUFFER \in [0 .. BUF_LEN - 1 -> 0 .. 255]
    /\ INDEX \in 0 .. BUF_LEN - 1
    /\ ACTIVE \in BOOLEAN

(* The text written since the last clear, cut into lines: a line break    *)
(* ends a line, and so does a line reaching the width.                     *)
AddToLayout(lines, e) ==
    IF e = Break THEN Append(lines, <<>>)
    ELSE LET cur == Append(Last(lines), e)
             ls  == [lines EXCEPT ![Len(lines)] = cur]
         IN IF Len(cur) = VGA_WIDTH THEN Append(ls, <<>>) ELSE ls

Layout(out) == FoldLeft(AddToLayout, <<<<>>>>, out)

(* What a reader of the screen expects of putchar, new_line and scroll,    *)
(* whatever mix of log lines, shell echo, prompts and panic text produced  *)
(* it: the screen shows the last VGA_HEIGHT lines of the text written since *)
(* the last clear, top-aligned, each cell in the color it was written in,  *)
(* and blanks everywhere else; the terminal's row and column are the end   *)
(* of that text, and once anything is written the hardware cursor shows it. *)
ScreenShowsOutput ==
    pc # "boot" =>
      LET L     == Layout(term.out)
          k     == Len(L)
          first == IF k > VGA_HEIGHT THEN k - VGA_HEIGHT + 1 ELSE 1
      IN /\ term.row = k - first
         /\ term.column = Len(L[k])
         /\ \A y \in 0 .. VGA_HEIGHT - 1, x \in 0 .. VGA_WIDTH - 1 :
               IF first + y <= k /\ x < Len(L[first + y])
               THEN term.screen[y * VGA_WIDTH + x] = L[first + y][x + 1]
               ELSE term.screen[y * VGA_WIDTH + x].c = SPACE
         /\ term.out # <<>> => term.cursor = term.row * VGA_WIDTH + term.column
=============================================================================
