------------------------------ MODULE Document ------------------------------
(***************************************************************************)
(* What a buffer promises to its users: a text and a cursor for each user  *)
(* who is in it.  There is no chain of lines, no window, no flag and no    *)
(* slot here, only what the operations of buffer.h do to the text and how  *)
(* the cursors keep their place when somebody else edits.                  *)
(*                                                                         *)
(* A cursor on line l at position p is in front of the character p + 1 of  *)
(* that line, and at its end when p is its length.                         *)
(***************************************************************************)
EXTENDS Integers, Sequences, SequencesExt

CONSTANTS
  Ids,          \* the users; the document starts with one cursor, of Author
  Author,
  Letters,      \* what a line consists of
  MaxLength     \* a line of this length takes no further letter

VARIABLES
  text,         \* a sequence of lines, each a sequence of letters
  cursors       \* who is in the document, and where

docvars == <<text, cursors>>

At(l, p)  == [line |-> l, pos |-> p]
Start     == At(1, 0)
Present   == DOMAIN cursors
Length(l) == Len(text[l])

Init == text = << << >> >> /\ cursors = [i \in {Author} |-> Start]

-----------------------------------------------------------------------------
Join(i) ==
  /\ i \notin Present
  /\ UNCHANGED text
  /\ cursors' = [j \in Present \cup {i} |-> IF j = i THEN Start ELSE cursors[j]]

Leave(i) ==
  /\ i \in Present
  /\ UNCHANGED text
  /\ cursors' = [j \in Present \ {i} |-> cursors[j]]

\* A letter typed by i pushes those to the right of i, but not whoever is one
\* position right of it.
Type(i, x) ==
  LET c == cursors[i]
      Pushed(j) == j = i \/ (cursors[j].line = c.line /\ cursors[j].pos > c.pos + 1)
  IN /\ i \in Present /\ Length(c.line) < MaxLength
     /\ text' = [text EXCEPT ![c.line] = InsertAt(@, c.pos + 1, x)]
     /\ cursors' = [j \in Present |->
          IF Pushed(j) THEN [cursors[j] EXCEPT !.pos = @ + 1] ELSE cursors[j]]

\* The line of i is broken in front of the cursor.  At the start of a line
\* everybody on it goes down with the text; elsewhere who is at the same
\* position as i stays behind.
Break(i) ==
  LET c == cursors[i]
      s == text[c.line]
      Carried(j) == cursors[j].line = c.line /\ (j = i \/ c.pos = 0 \/ cursors[j].pos > c.pos)
      Moved(j) == CASE cursors[j].line > c.line -> At(cursors[j].line + 1, cursors[j].pos)
                    [] Carried(j) -> At(c.line + 1, cursors[j].pos - c.pos)
                    [] OTHER -> cursors[j]
  IN /\ i \in Present
     /\ text' = SubSeq(text, 1, c.line - 1)
                  \o << SubSeq(s, 1, c.pos), SubSeq(s, c.pos + 1, Len(s)) >>
                  \o SubSeq(text, c.line + 1, Len(text))
     /\ cursors' = [j \in Present |-> Moved(j)]

\* The letter in front of i goes.
EraseLetter(i) ==
  LET c == cursors[i]
  IN /\ i \in Present /\ c.pos > 0
     /\ text' = [text EXCEPT ![c.line] = RemoveAt(@, c.pos)]
     /\ cursors' = [j \in Present |->
          IF cursors[j].line = c.line /\ cursors[j].pos >= c.pos
            THEN [cursors[j] EXCEPT !.pos = @ - 1] ELSE cursors[j]]

\* The line break in front of i goes.
EraseBreak(i) ==
  LET c == cursors[i]
      Moved(j) == CASE cursors[j].line > c.line -> At(cursors[j].line - 1, cursors[j].pos)
                    [] cursors[j].line = c.line ->
                         At(c.line - 1, cursors[j].pos + Length(c.line - 1))
                    [] OTHER -> cursors[j]
  IN /\ i \in Present /\ c.pos = 0 /\ c.line > 1
     /\ text' = SubSeq(text, 1, c.line - 2)
                  \o << text[c.line - 1] \o text[c.line] >>
                  \o SubSeq(text, c.line + 1, Len(text))
     /\ cursors' = [j \in Present |-> Moved(j)]

\* A step of the cursor; up and down keep the column where the line has it.
Step(i) ==
  LET c == cursors[i]
      Clamp(l) == At(l, IF c.pos <= Length(l) THEN c.pos ELSE Length(l))
      Targets ==
        (IF c.line > 1 THEN {Clamp(c.line - 1)} ELSE {}) \cup
        (IF c.line < Len(text) THEN {Clamp(c.line + 1)} ELSE {}) \cup
        (IF c.pos > 0 THEN {At(c.line, c.pos - 1)}
         ELSE IF c.line > 1 THEN {At(c.line - 1, Length(c.line - 1))} ELSE {}) \cup
        (IF c.pos < Length(c.line) THEN {At(c.line, c.pos + 1)}
         ELSE IF c.line < Len(text) THEN {At(c.line + 1, 0)} ELSE {})
  IN /\ i \in Present
     /\ UNCHANGED text
     /\ \E t \in Targets : cursors' = [cursors EXCEPT ![i] = t]

Next ==
  \E i \in Ids :
    \/ Join(i) \/ Leave(i) \/ Break(i) \/ EraseLetter(i) \/ EraseBreak(i) \/ Step(i)
    \/ \E x \in Letters : Type(i, x)

Spec == Init /\ [][Next]_docvars
=============================================================================
