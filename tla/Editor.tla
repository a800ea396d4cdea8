------------------------------- MODULE Editor -------------------------------
(***************************************************************************)
(* The line editor of the prompt (get_smart_input): a buffer of fixed size *)
(* with a length, a cursor, completion, several lines, and the lines       *)
(* entered before.  A key is one step; escape sequences arrive whole.  The *)
(* bytes of the buffer behind the text are kept, for they come back when   *)
(* the text is copied as a string.  Drawing and colours are left out.      *)
(***************************************************************************)
EXTENDS Integers, Sequences, FiniteSets, SequencesExt, FiniteSetsExt

CONSTANTS MaxLen,       \* MAX_INPUT_LEN
          MaxHistory,   \* MAX_HISTORY
          Indent,       \* 4
          KeySets,      \* keys used in a session
          Symbols,      \* names in scope: sequence of [word, dotted, members]
          Keywords,     \* sequence of words
          BlockWords,   \* if, for, while, else, func, class
          Fill,         \* what fresh memory may hold
          MaxKeys       \* bound on the keys pressed

NUL == "0"
NL  == "nl"
Letters   == {"x", "k", "a", "b"}
Blanks    == {" "}
Operators == {"=", "+"}

Signs     == {"{", "}", "(", ")", "quote", ";", "."}

Characters == Letters \cup Blanks \cup Operators \cup Signs \cup {NL}

\* A string of C, without its end.
Strings == Seq(Characters)

ASSUME EditorAssumption ==
  /\ MaxLen \in Nat /\ MaxHistory \in Nat \ {0} /\ Indent \in Nat \ {0} /\ MaxKeys \in Nat
  /\ MaxLen > 2 * Indent
  /\ Fill \subseteq Characters \cup {NUL}
  /\ Symbols \in Seq([word : Strings, dotted : BOOLEAN, members : Seq(Strings)])
  /\ Keywords \in Seq(Strings)

VARIABLES keys,     \* this session's
          history,  \* cmd_history
          view,     \* history_view_idx
          buf, len, pos,   \* input_buffer
          temp,     \* temp_buffer, as a string
          reading,  \* a line is being read
          pressed,  \* number of keys so far
          entered,  \* the lines returned
          draft     \* what was being written when history was entered

vars == <<keys, history, view, buf, len, pos, temp, reading, pressed, entered, draft>>

-----------------------------------------------------------------------------
(***************************************************************************)
(* The text.                                                               *)
(***************************************************************************)
\* Indices of the buffer count from 0, as in C.
Part(b, i, j) == [n \in 1..(j - i) |-> b[i + n - 1]]
Text     == Part(buf, 0, len)
AsString(b) ==
  LET ends == {i \in DOMAIN b : b[i] = NUL}
  IN  Part(b, 0, IF ends = {} THEN MaxLen ELSE Min(ends))
Copied(s) == [i \in DOMAIN buf |-> IF i < Len(s) THEN s[i + 1] ELSE IF i = Len(s) THEN NUL ELSE buf[i]]

\* The start of the line that p is in, and its end.
LineStart(p) == Max({0} \cup {i + 1 : i \in {i \in 0..(p - 1) : buf[i] = NL}})
LineEnd(p)   == Min({len} \cup {i \in p..(len - 1) : buf[i] = NL})

\* The number of characters of S from i on, before j.
Run(S, i, j) == Min({j} \cup {n \in i..(j - 1) : buf[n] \notin S}) - i
IndentOf(i, j) == Run(Blanks, i, j)

BaseIndent ==
  LET ends  == {i \in 0..len : i = len \/ buf[i] = NL}
      lines == {i \in ends : i > LineStart(i)}
  IN  IF lines = {} THEN 0 ELSE Min({IndentOf(LineStart(i), i) : i \in lines})

Occurrences(S, i, j) == Cardinality({n \in i..(j - 1) : buf[n] \in S})
IsBlockWord(i, n) == Part(buf, i, i + n) \in BlockWords

-----------------------------------------------------------------------------
(***************************************************************************)
(* Is the line complete?                                                   *)
(***************************************************************************)
\* Brackets outside of quotes.
Scan ==
  FoldLeft(LAMBDA s, c :
             IF c = "quote" THEN [s EXCEPT !.quoted = ~@]
             ELSE IF s.quoted THEN s
             ELSE CASE c = "{" -> [s EXCEPT !.brace = @ + 1]
                    [] c = "}" -> [s EXCEPT !.brace = @ - 1]
                    [] c = "(" -> [s EXCEPT !.paren = @ + 1]
                    [] c = ")" -> [s EXCEPT !.paren = @ - 1]
                    [] OTHER   -> s,
           [brace |-> 0, paren |-> 0, quoted |-> FALSE], Text)

\* The end of the text without the characters of S behind it.
Stripped(S) == Max({0} \cup {i + 1 : i \in {i \in 0..(len - 1) : buf[i] \notin S}})

\* The word "as" is written "a".
EndsWithOperator ==
  LET n == Stripped(Blanks)
  IN  n > 0 /\ \/ buf[n - 1] = "a" /\ (n = 1 \/ buf[n - 2] \notin Letters)
               \/ buf[n - 1] \in Operators /\ ~(n >= 2 /\ buf[n - 1] = "+" /\ buf[n - 2] = "+")

\* Indentation never asks for more: the line is looked at behind it.
NeedsContinuation ==
  LET n == Stripped(Blanks \cup {NL})
      i == LineStart(n - 1) + IndentOf(LineStart(n - 1), n)
  IN  n > 0 /\ buf[n - 1] \notin {"{", ";", "}"} /\ IsBlockWord(i, Run(Letters, i, n))

Complete ==
  LET start == LineStart(pos)
  IN  /\ Scan.paren <= 0 /\ Scan.brace <= 0 /\ ~Scan.quoted
      /\ ~EndsWithOperator /\ ~NeedsContinuation
      /\ \/ IndentOf(start, pos) >= pos - start
         \/ IndentOf(start, pos) <= BaseIndent

-----------------------------------------------------------------------------
(***************************************************************************)
(* What is suggested behind the cursor: a longer name that begins so, of   *)
(* the scope or behind a dot, and else a keyword.                          *)
(***************************************************************************)
WordStart == Max({LineStart(pos)} \cup {i + 1 : i \in {i \in LineStart(pos)..(pos - 1) : buf[i] \notin Letters}})
Word      == Part(buf, WordStart, pos)
AfterDot  == WordStart > 0 /\ buf[WordStart - 1] = "."

Longer(words) == {i \in DOMAIN words : Len(words[i]) > Len(Word) /\ IsPrefix(Word, words[i])}
FirstOf(S)    == Min(S)

\* The names behind the dot.
Owner ==
  LET from == Max({0} \cup {i + 1 : i \in {i \in LineStart(pos)..(WordStart - 2) :
                                             buf[i] \notin Letters \cup {"."}}})
      owners == {i \in DOMAIN Symbols : Symbols[i].word = Part(buf, from, WordStart - 1)}
  IN  IF owners = {} THEN <<>> ELSE Symbols[FirstOf(owners)].members

Names == [i \in DOMAIN Symbols |-> Symbols[i].word]

\* A suggestion and the character put behind it, or none.
Suggestion ==
  IF pos # len \/ ~(Word # <<>> \/ AfterDot) THEN <<>>
  ELSE IF AfterDot
  THEN IF Longer(Owner) = {} THEN <<>> ELSE <<[word |-> Owner[FirstOf(Longer(Owner))], behind |-> " "]>>
  ELSE IF Longer(Names) # {}
  THEN LET s == Symbols[FirstOf(Longer(Names))]
       IN  <<[word |-> s.word, behind |-> IF s.dotted THEN "." ELSE " "]>>
  ELSE IF Longer(Keywords) # {} THEN <<[word |-> Keywords[FirstOf(Longer(Keywords))], behind |-> " "]>>
  ELSE <<>>

\* The suggestion written over the word, cut off where the buffer ends.
Cut(s)     == Min({Len(s), MaxLen - WordStart - 1})
Written(s) == [i \in DOMAIN buf |->
                 IF i \in WordStart..(WordStart + Cut(s) - 1) THEN s[i - WordStart + 1]
                 ELSE IF i = WordStart + Cut(s) THEN NUL ELSE buf[i]]
Added(s)   == Cut(s) - Len(Word)

-----------------------------------------------------------------------------
(***************************************************************************)
(* Up and down between the lines of the text.                              *)
(***************************************************************************)
\* Where the cursor goes from p, to the same column if the line has one.
UpFrom(p) ==
  LET start == LineStart(p)
      prev  == LineStart(start - 1)
  IN  prev + Min({p - start, start - 1 - prev})
CanGoUp(p) == LineStart(p) > 0

DownFrom(p) ==
  LET next == LineEnd(p) + 1
  IN  next + Min({p - LineStart(p), LineEnd(next) - next})
CanGoDown(p) == LineEnd(p) + 1 < len

WordLeft(p) ==
  LET behind(q, S) == Max({0} \cup {i + 1 : i \in {i \in 0..(q - 1) : buf[i] \in S}})
      word == behind(p, Letters)
  IN  behind(word, {buf[i] : i \in 0..(len - 1)} \ Letters)

WordRight(p) ==
  LET from == Min({len} \cup {i \in p..(len - 1) : buf[i] \in Letters})
  IN  from + Run(Letters, from, len)

-----------------------------------------------------------------------------
Init ==
  /\ keys \in KeySets
  /\ history = <<>> /\ view = 0
  /\ buf = [i \in 0..(MaxLen - 1) |-> NUL] /\ len = 0 /\ pos = 0
  /\ temp = <<>>
  /\ reading = FALSE
  /\ pressed = 0
  /\ entered = <<>>
  /\ draft = [text |-> <<>>, whole |-> TRUE]

\* get_smart_input is called; the memory of the buffer is not cleared.
Start ==
  /\ ~reading /\ pressed < MaxKeys
  /\ \E f \in Fill : buf' = [i \in DOMAIN buf |-> IF i = 0 THEN NUL ELSE f]
  /\ view' = Len(history)
  /\ len' = 0 /\ pos' = 0 /\ temp' = <<>>
  /\ reading' = TRUE
  /\ UNCHANGED <<keys, history, pressed, entered, draft>>

Key(k) ==
  /\ reading /\ k \in keys /\ pressed < MaxKeys
  /\ pressed' = pressed + 1
  /\ UNCHANGED keys

\* While no entry of the history is looked at the text is copied.
Saved == temp' = IF view = Len(history) THEN AsString(buf') ELSE temp

Edited(b, n, p) ==
  /\ buf' = b /\ len' = n /\ pos' = p
  /\ UNCHANGED <<history, view, reading, entered, draft>>

Moved(p) == pos' = p /\ UNCHANGED <<history, view, buf, len, temp, reading, entered, draft>>

\* The text from p on, with what is behind it, n places further.
Shifted(p, n) ==
  [i \in DOMAIN buf |-> IF i \in (p + n)..(len + n) THEN buf[i - n] ELSE buf[i]]

\* A new line, indented like this one and by what it opens.
InsertNewline ==
  LET start  == LineStart(pos)
      indent == IndentOf(start, pos)
      word   == Run(Letters, start + indent, pos)
      braces == Occurrences({"{"}, start, pos) - Occurrences({"}"}, start, pos)
      opens  == braces = 0 /\ IsBlockWord(start + indent, word)
                /\ Occurrences({";", "}"}, start + indent + word, pos) = 0
      target == Max({0, indent + Indent * (IF opens THEN 1 ELSE braces)})
  IN  IF len + 1 + target < MaxLen - 1
      THEN Edited([i \in DOMAIN buf |-> IF i = pos THEN NL
                                        ELSE IF i \in (pos + 1)..(pos + target) THEN " "
                                        ELSE Shifted(pos, 1 + target)[i]],
                  len + 1 + target, pos + 1 + target)
      ELSE Edited(buf, len, pos)

\* Mutant of Remembered: a full history gives up its newest line.
Remembered_DropsLast(line) ==
  IF line = <<>> \/ (history # <<>> /\ Last(history) = line) THEN history
  ELSE IF Len(history) < MaxHistory THEN Append(history, line)
  ELSE Append(Front(history), line)

\* The history with the line, unless it is empty or the last one again.
Remembered(line) ==
  IF line = <<>> \/ (history # <<>> /\ Last(history) = line) THEN history
  ELSE IF Len(history) < MaxHistory THEN Append(history, line)
  ELSE Append(Tail(history), line)

Enter(k) ==
  /\ Key(k)
  /\ IF k = "lf" /\ len = 0 THEN Moved(pos)
     ELSE IF Complete
     THEN LET n    == Max({0} \cup {i + 1 : i \in {i \in 0..(len - 1) : buf[i] # " "}})
              line == Part(buf, 0, n)
          IN  /\ buf' = [i \in DOMAIN buf |-> IF i \in n..len THEN NUL ELSE buf[i]]
              /\ len' = n
              /\ history' = Remembered(line)
              /\ entered' = Append(entered, line)
              /\ reading' = FALSE
              /\ UNCHANGED <<view, pos, temp, draft>>
     ELSE InsertNewline /\ Saved

AltEnter == Key("alt_enter") /\ InsertNewline /\ Saved

Backspace ==
  /\ Key("backspace")
  /\ IF pos = 0 THEN Moved(pos)
     ELSE /\ Edited([i \in DOMAIN buf |-> IF i \in (pos - 1)..(len - 1) THEN buf[i + 1] ELSE buf[i]],
                    len - 1, pos - 1)
          /\ Saved

Delete ==
  /\ Key("delete")
  /\ UNCHANGED temp
  /\ IF pos = len THEN Edited(buf, len, pos)
     ELSE Edited([i \in DOMAIN buf |-> IF i \in pos..(len - 1) THEN buf[i + 1] ELSE buf[i]], len - 1, pos)

\* The suggestion and one more character; the end of the string is not moved.
Accept(s) ==
  LET b == Written(s.word)
      n == Added(s.word)
  IN  /\ IF len + n + 1 < MaxLen - 1
         THEN Edited([b EXCEPT ![len + n + 1] = b[len], ![len + n] = s.behind], len + n + 1, len + n + 1)
         ELSE Edited(b, len, pos)
      /\ UNCHANGED temp

\* Blanks, put one by one in front of what follows up to the end of the text.
Tabulate ==
  IF len + Indent < MaxLen - 1
  THEN /\ Edited([i \in DOMAIN buf |-> IF i \in pos..(pos + Indent - 1) THEN " "
                                       ELSE IF i \in (pos + Indent)..(len + Indent - 1) THEN buf[i - Indent]
                                       ELSE buf[i]], len + Indent, pos + Indent)
       /\ Saved
  ELSE Moved(pos)

Tab ==
  /\ Key("tab")
  /\ IF Suggestion # <<>> THEN Accept(Suggestion[1]) ELSE Tabulate

Left == Key("left") /\ Moved(Max({0, pos - 1}))

Right ==
  /\ Key("right")
  /\ IF pos < len THEN Moved(pos + 1)
     ELSE IF Suggestion = <<>> THEN Moved(pos)
     ELSE LET s == Suggestion[1].word
              n == IF len + Added(s) < MaxLen - 1 THEN len + Added(s) ELSE len
          IN  Edited(Written(s), n, n) /\ UNCHANGED temp

CtrlLeft  == Key("ctrl_left") /\ Moved(WordLeft(pos))
CtrlRight == Key("ctrl_right") /\ Moved(WordRight(pos))
ShiftUp   == Key("shift_up") /\ Moved(IF CanGoUp(pos) THEN UpFrom(pos) ELSE pos)
ShiftDown == Key("shift_down") /\ Moved(IF CanGoDown(pos) THEN DownFrom(pos) ELSE pos)
Home      == Key("home") /\ Moved(LineStart(pos))
End       == Key("end") /\ Moved(LineEnd(pos))

CtrlC ==
  /\ Key("ctrl_c")
  /\ Edited([buf EXCEPT ![0] = NUL], 0, 0)
  /\ UNCHANGED temp

-----------------------------------------------------------------------------
(***************************************************************************)
(* The history: entries that begin with what was being written.            *)
(***************************************************************************)
Matching(t, S) == {i \in S : t = <<>> \/ IsPrefix(t, history[i + 1])}

Shows(b, v) ==
  /\ buf' = b /\ view' = v
  /\ len' = Len(AsString(b)) /\ pos' = Len(AsString(b))
  /\ UNCHANGED <<history, reading, entered>>

Up ==
  /\ Key("up")
  /\ IF CanGoUp(pos) THEN Moved(UpFrom(pos))
     ELSE IF view = 0 THEN Moved(pos)
     ELSE LET t     == IF view = Len(history) THEN AsString(buf) ELSE temp
              found == Matching(t, 0..(view - 1))
          IN  /\ temp' = t
              /\ IF found = {} THEN UNCHANGED <<history, view, buf, len, pos, reading, entered, draft>>
                 ELSE /\ Shows(Copied(history[Max(found) + 1]), Max(found))
                      /\ draft' = IF view = Len(history)
                                  THEN [text |-> Text, whole |-> AsString(buf) = Text] ELSE draft

\* Mutant of Down: the last entry is not left.
Down_KeepsEntry ==
  /\ Key("down")
  /\ IF CanGoDown(pos) THEN Moved(DownFrom(pos))
     ELSE IF view = Len(history) THEN Moved(pos)
     ELSE LET found == Matching(temp, (view + 1)..(Len(history) - 1))
              to    == IF found = {} THEN Len(history) ELSE Min(found)
          IN  /\ Shows(IF to = Len(history) THEN buf ELSE Copied(history[to + 1]), to)
              /\ UNCHANGED <<temp, draft>>

Down ==
  /\ Key("down")
  /\ IF CanGoDown(pos) THEN Moved(DownFrom(pos))
     ELSE IF view = Len(history) THEN Moved(pos)
     ELSE LET found == Matching(temp, (view + 1)..(Len(history) - 1))
              to    == IF found = {} THEN Len(history) ELSE Min(found)
          IN  /\ Shows(Copied(IF to = Len(history) THEN temp ELSE history[to + 1]), to)
              /\ UNCHANGED <<temp, draft>>

-----------------------------------------------------------------------------
\* A brace on a line of blanks goes back by one indentation.
Type(c) ==
  /\ Key(c) /\ c \in Characters \ {NL}
  /\ LET spaces == pos - LineStart(pos)
         back   == IF c = "}" /\ IndentOf(LineStart(pos), pos) = spaces THEN Min({spaces, Indent}) ELSE 0
         moved  == [i \in DOMAIN buf |-> IF i \in (pos - back)..(len - back - 1) THEN buf[i + back] ELSE buf[i]]
         p      == pos - back
         n      == len - back
     IN  IF n < MaxLen - 1
         THEN /\ Edited([i \in DOMAIN buf |-> IF i = p THEN c ELSE IF i = n + 1 THEN NUL
                                              ELSE IF i \in (p + 1)..n THEN moved[i - 1] ELSE moved[i]],
                        n + 1, p + 1)
              /\ Saved
         ELSE Edited(moved, n, p) /\ UNCHANGED temp

\* The end of the input: the prompt is left.
Eof ==
  /\ reading /\ "eof" \in keys /\ pressed < MaxKeys
  /\ pressed' = MaxKeys
  /\ reading' = FALSE
  /\ UNCHANGED <<keys, history, view, buf, len, pos, temp, entered, draft>>

Done == pressed = MaxKeys /\ UNCHANGED vars

Next ==
  \/ Start \/ Enter("cr") \/ Enter("lf") \/ AltEnter \/ Backspace \/ Delete \/ Tab \/ Left \/ Right
  \/ CtrlLeft \/ CtrlRight \/ ShiftUp \/ ShiftDown \/ Home \/ End \/ CtrlC \/ Up \/ Down
  \/ (\E c \in keys : Type(c)) \/ Eof \/ Done

Spec == Init /\ [][Next]_vars

-----------------------------------------------------------------------------
TypeOK ==
  /\ DOMAIN buf = 0..(MaxLen - 1)
  /\ len \in 0..(MaxLen - 1) /\ (reading => pos \in 0..len)
  /\ NUL \notin ToSet(Text)
  /\ view \in 0..Len(history) /\ Len(history) <= MaxHistory
  /\ pressed \in 0..MaxKeys

\* The lines that are worth keeping: not empty, and not the same again.
Worth(lines) ==
  LET worth[n \in 0..Len(lines)] ==
        IF n = 0 THEN <<>>
        ELSE IF \/ lines[n] = <<>>
                \/ worth[n - 1] # <<>> /\ Last(worth[n - 1]) = lines[n]
        THEN worth[n - 1]
        ELSE Append(worth[n - 1], lines[n])
  IN  worth[Len(lines)]

\* The history holds the last lines entered, in their order: without empty
\* ones and without repetitions, also when it is full (add_to_cmd_history).
HistoryKept ==
  LET worth == Worth(entered)
      n     == Len(worth)
  IN  history = SubSeq(worth, Max({1, (n - MaxHistory) + 1}), n)

\* What was being written when the history was entered is there again when it
\* is left at its end, whatever was edited meanwhile; provided that the string
\* ended where the text did (get_smart_input).
DraftKept ==
  [][reading /\ reading' /\ view < Len(history) /\ view' = Len(history)
       => (draft.whole => Text' = draft.text)]_vars
=============================================================================
