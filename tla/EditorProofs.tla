---------------------------- MODULE EditorProofs ----------------------------
(***************************************************************************)
(* The line editor stays inside its buffer, keeps the lines entered and    *)
(* gives the draft back, for every size of the buffer and of the history,  *)
(* all names that can be completed and every sequence of keys.             *)
(***************************************************************************)
EXTENDS Editor, Iterations, FiniteSetTheorems

Bytes == Characters \cup {NUL}

(* What fits the buffer with its end. *)
Lines == {s \in Strings : Len(s) < MaxLen}

(* A text of length n with the cursor at p, in a buffer b. *)
Fits(b, n, p) ==
  /\ b \in [0 .. (MaxLen - 1) -> Bytes]
  /\ n \in 0 .. (MaxLen - 1)
  /\ \A i \in 0 .. (n - 1) : b[i] # NUL
  /\ p \in 0 .. n

TextOK == Fits(buf, len, IF reading THEN pos ELSE 0)

HistoryOK ==
  /\ history \in Seq(Lines) /\ entered \in Seq(Lines)
  /\ Len(history) =< MaxHistory
  /\ view \in 0 .. Len(history)

(* While an entry of the history is shown, what was being written is kept. *)
DraftOK ==
  reading /\ view < Len(history) =>
    temp \in Lines /\ (draft.whole => temp = draft.text)

EditorInv ==
  /\ TextOK
  /\ HistoryOK
  /\ DraftOK
  /\ pressed \in 0 .. MaxKeys
-----------------------------------------------------------------------------
LEMMA BytesAre ==
  /\ NUL \in Bytes /\ NL \in Bytes /\ " " \in Bytes
  /\ \A c \in Characters : c \in Bytes /\ c # NUL
  /\ \A c \in Bytes : c # NUL => c \in Characters
  /\ NL \in Characters /\ " " \in Characters /\ "." \in Characters
BY DEF Bytes, NUL, NL, Characters, Letters, Blanks, Operators, Signs

(* Least and greatest elements. *)
LEMMA MinOf ==
  ASSUME NEW S \in SUBSET Nat, S # {}
  PROVE  Min(S) \in S /\ \A x \in S : Min(S) =< x
<1>1. \E n \in S : \A m \in S : n =< m
  BY LeastNatural
<1> QED BY <1>1 DEF Min

LEMMA MaxOf ==
  ASSUME NEW k \in Nat, NEW S \in SUBSET (0 .. k), S # {}
  PROVE  Max(S) \in S /\ \A x \in S : x =< Max(S)
<1> DEFINE T == {k - x : x \in S}
<1>1. T \in SUBSET Nat /\ T # {}
  OBVIOUS
<1>2. PICK n \in T : \A m \in T : n =< m
  <2> HIDE DEF T
  <2> QED BY <1>1, LeastNatural
<1>3. PICK x \in S : n = k - x
  BY <1>2
<1>4. \A y \in S : k - y \in T
  OBVIOUS
<1> HIDE DEF T
<1>5. \A y \in S : k - x =< k - y
  BY <1>2, <1>3, <1>4
<1>6. \A y \in S : x >= y
  BY <1>5
<1>7. \E z \in S : \A y \in S : z >= y
  BY <1>6
<1>8. Max(S) \in S /\ \A y \in S : Max(S) >= y
  BY <1>7 DEF Max
<1> QED BY <1>8

LEMMA MinOfTwo ==
  ASSUME NEW a \in Int, NEW b \in Int
  PROVE  Min({a, b}) = IF a =< b THEN a ELSE b
BY DEF Min

LEMMA MaxOfTwo ==
  ASSUME NEW a \in Int, NEW b \in Int
  PROVE  Max({a, b}) = IF a >= b THEN a ELSE b
BY DEF Max
-----------------------------------------------------------------------------
(* Places in the text. *)
LEMMA LineStartIn ==
  ASSUME NEW p \in Nat PROVE LineStart(p) \in 0 .. p
<1> DEFINE S == {0} \cup {i + 1 : i \in {i \in 0 .. (p - 1) : buf[i] = NL}}
<1>1. S \in SUBSET (0 .. p) /\ S # {}
  OBVIOUS
<1>2. LineStart(p) = Max(S)
  BY DEF LineStart
<1> HIDE DEF S
<1> QED BY <1>1, <1>2, MaxOf

LEMMA LineEndIn ==
  ASSUME len \in Nat, NEW p \in 0 .. len PROVE LineEnd(p) \in p .. len
<1> DEFINE S == {len} \cup {i \in p .. (len - 1) : buf[i] = NL}
<1>1. S \in SUBSET Nat /\ S # {} /\ S \subseteq p .. len
  OBVIOUS
<1>2. LineEnd(p) = Min(S)
  BY DEF LineEnd
<1> HIDE DEF S
<1> QED BY <1>1, <1>2, MinOf

LEMMA RunIn ==
  ASSUME NEW S, NEW i \in Nat, NEW j \in Nat, i =< j
  PROVE  Run(S, i, j) \in 0 .. (j - i)
<1> DEFINE T == {j} \cup {n \in i .. (j - 1) : buf[n] \notin S}
<1>1. T \in SUBSET Nat /\ T # {} /\ T \subseteq i .. j
  OBVIOUS
<1>2. Run(S, i, j) = Min(T) - i
  BY DEF Run
<1> HIDE DEF T
<1>3. Min(T) \in i .. j
  BY <1>1, MinOf
<1> QED BY <1>2, <1>3

LEMMA OccurrencesIn ==
  ASSUME NEW S, NEW i \in Nat, NEW j \in Nat
  PROVE  Occurrences(S, i, j) \in Nat
<1>1. IsFiniteSet(i .. (j - 1))
  BY FS_Interval
<1>2. {n \in i .. (j - 1) : buf[n] \in S} \subseteq i .. (j - 1)
  OBVIOUS
<1> QED BY <1>1, <1>2, FS_Subset, FS_CardinalityType DEF Occurrences

LEMMA WordStartIn ==
  ASSUME pos \in Nat PROVE WordStart \in 0 .. pos
<1> DEFINE S == {LineStart(pos)} \cup
                {i + 1 : i \in {i \in LineStart(pos) .. (pos - 1) : buf[i] \notin Letters}}
<1>1. LineStart(pos) \in 0 .. pos
  BY LineStartIn
<1>2. S \in SUBSET (0 .. pos) /\ S # {}
  BY <1>1
<1>3. WordStart = Max(S)
  BY DEF WordStart
<1> HIDE DEF S
<1> QED BY <1>2, <1>3, MaxOf

(* Where the cursor goes is in the text. *)
LEMMA UpIn ==
  ASSUME NEW p \in Nat, CanGoUp(p) PROVE UpFrom(p) \in 0 .. p
<1> DEFINE start == LineStart(p)
           prev  == LineStart(start - 1)
<1>1. start \in 1 .. p
  BY LineStartIn DEF CanGoUp
<1>2. prev \in 0 .. (start - 1)
  BY <1>1, LineStartIn
<1>3. UpFrom(p) = prev + Min({p - start, (start - 1) - prev})
  BY DEF UpFrom
<1> HIDE DEF start, prev
<1>4. Min({p - start, (start - 1) - prev}) \in 0 .. ((start - 1) - prev)
  BY <1>1, <1>2, MinOfTwo
<1> QED BY <1>1, <1>2, <1>3, <1>4

LEMMA DownIn ==
  ASSUME len \in Nat, NEW p \in 0 .. len, CanGoDown(p) PROVE DownFrom(p) \in 0 .. len
<1> DEFINE next == LineEnd(p) + 1
           start == LineStart(p)
           end  == LineEnd(next)
<1>1. LineEnd(p) \in p .. len /\ start \in 0 .. p
  BY LineEndIn, LineStartIn
<1>2. next \in 0 .. len
  BY <1>1 DEF CanGoDown
<1>3. end \in next .. len
  BY <1>2, LineEndIn
<1>4. DownFrom(p) = next + Min({p - start, end - next})
  BY DEF DownFrom
<1> HIDE DEF next, start, end
<1>5. Min({p - start, end - next}) \in 0 .. (end - next)
  BY <1>1, <1>2, <1>3, MinOfTwo
<1> QED BY <1>1, <1>2, <1>3, <1>4, <1>5

LEMMA BehindIn ==
  ASSUME NEW q \in Nat, NEW S
  PROVE  Max({0} \cup {i + 1 : i \in {i \in 0 .. (q - 1) : buf[i] \in S}}) \in 0 .. q
<1> DEFINE T == {0} \cup {i + 1 : i \in {i \in 0 .. (q - 1) : buf[i] \in S}}
<1>1. T \in SUBSET (0 .. q) /\ T # {}
  OBVIOUS
<1> HIDE DEF T
<1>2. Max(T) \in 0 .. q
  BY <1>1, MaxOf
<1> QED BY <1>2 DEF T

LEMMA WordLeftIn ==
  ASSUME NEW p \in Nat PROVE WordLeft(p) \in 0 .. p
<1> DEFINE behind(q, S) == Max({0} \cup {i + 1 : i \in {i \in 0 .. (q - 1) : buf[i] \in S}})
           S == {buf[i] : i \in 0 .. (len - 1)} \ Letters
<1>1. WordLeft(p) = behind(behind(p, Letters), S)
  BY DEF WordLeft
<1>2. \A q \in Nat : behind(q, S) \in 0 .. q
  BY BehindIn
<1>3. behind(p, Letters) \in 0 .. p
  BY BehindIn
<1> HIDE DEF behind, S
<1>4. behind(p, Letters) \in Nat
  BY <1>3
<1>5. behind(behind(p, Letters), S) \in 0 .. behind(p, Letters)
  BY <1>2, <1>4
<1> QED BY <1>1, <1>3, <1>5

LEMMA WordRightIn ==
  ASSUME len \in Nat, NEW p \in 0 .. len PROVE WordRight(p) \in 0 .. len
<1> DEFINE S == {len} \cup {i \in p .. (len - 1) : buf[i] \in Letters}
           from == Min(S)
<1>1. S \in SUBSET Nat /\ S # {} /\ S \subseteq p .. len
  OBVIOUS
<1>2. WordRight(p) = from + Run(Letters, from, len)
  BY DEF WordRight
<1> HIDE DEF S
<1>3. from \in p .. len
  BY <1>1, MinOf
<1> HIDE DEF from
<1>4. Run(Letters, from, len) \in 0 .. (len - from)
  BY <1>3, RunIn
<1> QED BY <1>2, <1>3, <1>4
-----------------------------------------------------------------------------
(* Parts of the buffer, and strings copied into it. *)
LEMMA PartIs ==
  ASSUME NEW b \in [0 .. (MaxLen - 1) -> Bytes], NEW i \in Nat, NEW j \in Nat,
         i =< j, j =< MaxLen
  PROVE  /\ Part(b, i, j) \in Seq(Bytes) /\ Len(Part(b, i, j)) = j - i
         /\ \A n \in 1 .. (j - i) : Part(b, i, j)[n] = b[(i + n) - 1]
<1> DEFINE s == Part(b, i, j)
<1>1. MaxLen \in Nat
  BY EditorAssumption
<1>2. \A n \in 1 .. (j - i) : (i + n) - 1 \in 0 .. (MaxLen - 1)
  BY <1>1
<1>3. s = [n \in 1 .. (j - i) |-> b[(i + n) - 1]]
  BY DEF Part
<1>4. j - i \in Nat /\ s \in [1 .. (j - i) -> Bytes]
  <2>1. \A n \in 1 .. (j - i) : b[(i + n) - 1] \in Bytes
    BY <1>2
  <2> DEFINE e(n) == b[(i + n) - 1]
             D    == 1 .. (j - i)
  <2>2. s = [n \in D |-> e(n)] /\ \A n \in D : e(n) \in Bytes
    BY <1>3, <2>1
  <2> HIDE DEF e, D, s
  <2>3. s \in [D -> Bytes]
    BY <2>2
  <2> QED BY <2>3 DEF D
<1> HIDE DEF s
<1>5. s \in Seq(Bytes) /\ Len(s) = j - i
  BY <1>4
<1> QED BY <1>3, <1>5 DEF s

(* A part without NUL is a string. *)
LEMMA PartIsString ==
  ASSUME NEW b \in [0 .. (MaxLen - 1) -> Bytes], NEW n \in Nat, n =< MaxLen,
         \A i \in 0 .. (n - 1) : b[i] # NUL
  PROVE  Part(b, 0, n) \in Strings /\ Len(Part(b, 0, n)) = n
<1> DEFINE s == Part(b, 0, n)
<1>1. /\ s \in Seq(Bytes) /\ Len(s) = n
      /\ \A k \in 1 .. n : s[k] = b[(0 + k) - 1]
  <2>1. 0 \in Nat /\ 0 =< n /\ n - 0 = n
    OBVIOUS
  <2>2. /\ s \in Seq(Bytes) /\ Len(s) = n - 0
        /\ \A k \in 1 .. (n - 0) : s[k] = b[(0 + k) - 1]
    BY <2>1, PartIs
  <2> HIDE DEF s
  <2> QED BY <2>1, <2>2
<1>2. \A k \in 1 .. n : s[k] \in Characters
  <2>1. \A k \in 1 .. n : s[k] \in Bytes
    BY <1>1, ElementOfSeq
  <2>2. \A k \in 1 .. n : (0 + k) - 1 \in 0 .. (n - 1)
    OBVIOUS
  <2> HIDE DEF s
  <2> QED BY <1>1, <2>1, <2>2, BytesAre
<1>3. s \in [1 .. n -> Characters]
  <2> HIDE DEF s
  <2>1. s \in [1 .. n -> Bytes]
    BY <1>1, LenProperties
  <2> QED BY <1>2, <2>1
<1> HIDE DEF s
<1> QED BY <1>1, <1>3 DEF Strings, s

LEMMA AsStringIs ==
  ASSUME NEW b \in [0 .. (MaxLen - 1) -> Bytes]
  PROVE  /\ AsString(b) \in Strings /\ Len(AsString(b)) =< MaxLen
         /\ Len(AsString(b)) \in Nat
         /\ \A i \in 0 .. (Len(AsString(b)) - 1) : b[i] # NUL
         /\ AsString(b) = Part(b, 0, Len(AsString(b)))
<1> DEFINE ends == {i \in DOMAIN b : b[i] = NUL}
           n    == IF ends = {} THEN MaxLen ELSE Min(ends)
<1>1. MaxLen \in Nat /\ DOMAIN b = 0 .. (MaxLen - 1)
  BY EditorAssumption
<1>2. AsString(b) = Part(b, 0, n)
  BY DEF AsString
<1>3. /\ n \in Nat /\ n =< MaxLen
      /\ \A i \in 0 .. (n - 1) : b[i] # NUL
  <2>1. CASE ends = {}
    BY <1>1, <2>1
  <2>2. CASE ends # {}
    <3>1. ends \in SUBSET Nat
      BY <1>1
    <3>2. Min(ends) \in ends /\ \A x \in ends : Min(ends) =< x
      <4> HIDE DEF ends
      <4> QED BY <2>2, <3>1, MinOf
    <3>3. n = Min(ends)
      BY <2>2
    <3>4. n \in 0 .. (MaxLen - 1)
      BY <1>1, <3>2, <3>3
    <3>5. ASSUME NEW i \in 0 .. (n - 1) PROVE b[i] # NUL
      <4>1. i \in DOMAIN b /\ ~ (n =< i)
        BY <1>1, <3>4, <3>5
      <4>2. i \notin ends
        BY <3>2, <3>3, <4>1
      <4> QED BY <4>1, <4>2
    <3> QED BY <1>1, <3>4, <3>5
  <2> QED BY <2>1, <2>2
<1> HIDE DEF n
<1>4. Part(b, 0, n) \in Strings /\ Len(Part(b, 0, n)) = n
  BY <1>3, PartIsString
<1> QED BY <1>2, <1>3, <1>4

(* A line that is copied into the buffer is there as the string, and fits. *)
LEMMA CopiedIs ==
  ASSUME buf \in [0 .. (MaxLen - 1) -> Bytes], NEW s \in Lines
  PROVE  /\ AsString(Copied(s)) = s
         /\ Fits(Copied(s), Len(s), Len(s))
         /\ Part(Copied(s), 0, Len(s)) = s
<1> DEFINE b == Copied(s)
           k == Len(s)
           ends == {i \in DOMAIN b : b[i] = NUL}
<1>1. /\ MaxLen \in Nat /\ DOMAIN buf = 0 .. (MaxLen - 1)
      /\ s \in Seq(Characters) /\ k \in Nat /\ k < MaxLen
  BY EditorAssumption, LenProperties DEF Lines, Strings
<1>2. \A i \in 1 .. k : s[i] \in Bytes /\ s[i] # NUL
  BY <1>1, ElementOfSeq, BytesAre
<1>3. b = [i \in 0 .. (MaxLen - 1) |-> IF i < k THEN s[i + 1] ELSE IF i = k THEN NUL ELSE buf[i]]
  BY <1>1 DEF Copied
<1> HIDE DEF b, k
<1>4. /\ DOMAIN b = 0 .. (MaxLen - 1)
      /\ \A i \in 0 .. (k - 1) : b[i] = s[i + 1] /\ i + 1 \in 1 .. k
      /\ b[k] = NUL
  BY <1>1, <1>3
<1>5. b \in [0 .. (MaxLen - 1) -> Bytes]
  <2>1. NUL \in Bytes
    BY BytesAre
  <2>2. \A i \in 0 .. (MaxLen - 1) : i < k => i + 1 \in 1 .. k
    BY <1>1
  <2>3. \A i \in 0 .. (MaxLen - 1) :
          (IF i < k THEN s[i + 1] ELSE IF i = k THEN NUL ELSE buf[i]) \in Bytes
    BY <1>2, <2>1, <2>2
  <2> QED BY <1>3, <2>3
<1>6. \A i \in 0 .. (k - 1) : b[i] # NUL
  BY <1>2, <1>4
<1>7. Fits(b, k, k)
  BY <1>1, <1>5, <1>6 DEF Fits
<1>8. Min(ends) = k /\ ends # {}
  <2>1. k \in ends /\ ends \in SUBSET Nat
    BY <1>1, <1>4
  <2>2. \A i \in ends : k =< i
    BY <1>1, <1>4, <1>6
  <2> HIDE DEF ends
  <2>3. Min(ends) \in ends /\ \A x \in ends : Min(ends) =< x
    BY <2>1, MinOf
  <2> QED BY <1>1, <2>1, <2>2, <2>3
<1>9. AsString(b) = Part(b, 0, k)
  BY <1>8 DEF AsString
<1>10. Part(b, 0, k) = s
  <2> DEFINE t == Part(b, 0, k)
  <2>1. /\ t \in Seq(Bytes) /\ Len(t) = k
        /\ \A n \in 1 .. k : t[n] = b[(0 + n) - 1]
    <3>1. 0 \in Nat /\ 0 =< k /\ k - 0 = k /\ k =< MaxLen
      BY <1>1
    <3>2. /\ t \in Seq(Bytes) /\ Len(t) = k - 0
          /\ \A n \in 1 .. (k - 0) : t[n] = b[(0 + n) - 1]
      BY <1>1, <1>5, <3>1, PartIs
    <3> HIDE DEF t
    <3> QED BY <3>1, <3>2
  <2>2. \A n \in 1 .. k : (0 + n) - 1 \in 0 .. (k - 1) /\ ((0 + n) - 1) + 1 = n
    BY <1>1
  <2> HIDE DEF t
  <2>3. \A n \in 1 .. k : t[n] = s[n]
    BY <1>4, <2>1, <2>2
  <2>4. s \in Seq(Bytes)
    BY <1>1, BytesAre, SeqMonotonic
  <2>5. t = s
    BY <2>1, <2>3, <2>4, SeqEqual DEF k
  <2> QED BY <2>5 DEF t
<1> QED BY <1>7, <1>9, <1>10 DEF b, k
-----------------------------------------------------------------------------
(* Keys that edit the text or move in it. *)
LEMMA Facts ==
  ASSUME EditorInv, reading
  PROVE  /\ MaxLen \in Nat /\ Indent \in Nat \ {0} /\ MaxLen > 2
         /\ buf \in [0 .. (MaxLen - 1) -> Bytes] /\ DOMAIN buf = 0 .. (MaxLen - 1)
         /\ len \in 0 .. (MaxLen - 1) /\ pos \in 0 .. len /\ len \in Nat /\ pos \in Nat
         /\ \A i \in 0 .. (len - 1) : buf[i] # NUL
         /\ Fits(buf, len, pos)
BY EditorAssumption DEF EditorInv, TextOK, Fits

(* A key is pressed while a line is read, and the text stays in the buffer. *)
Pressed(b, n, p) ==
  /\ pressed' \in 0 .. MaxKeys
  /\ reading' = reading
  /\ UNCHANGED <<history, view, entered, draft>>
  /\ buf' = b /\ len' = n /\ pos' = p
  /\ view = Len(history) \/ temp' = temp

LEMMA PressedKeeps ==
  ASSUME EditorInv, reading, NEW b, NEW n, NEW p, Fits(b, n, p), Pressed(b, n, p)
  PROVE  EditorInv'
<1>1. TextOK'
  BY DEF Pressed, TextOK
<1>2. HistoryOK'
  BY DEF Pressed, HistoryOK, EditorInv
<1>3. DraftOK'
  BY DEF Pressed, HistoryOK, DraftOK, EditorInv
<1> QED BY <1>1, <1>2, <1>3 DEF Pressed, EditorInv

LEMMA KeyCounts ==
  ASSUME EditorInv, NEW k, Key(k)
  PROVE  pressed' \in 0 .. MaxKeys /\ reading
BY EditorAssumption DEF Key, EditorInv

LEMMA MovedIsPressed ==
  ASSUME EditorInv, NEW k, Key(k), NEW p, Moved(p)
  PROVE  Pressed(buf, len, p)
BY KeyCounts DEF Moved, Pressed

LEMMA EditedIsPressed ==
  ASSUME EditorInv, NEW k, Key(k), NEW b, NEW n, NEW p, Edited(b, n, p),
         Saved \/ UNCHANGED temp
  PROVE  Pressed(b, n, p)
BY KeyCounts DEF Edited, Saved, Pressed

LEMMA MoveKeeps ==
  ASSUME EditorInv, NEW k, Key(k), NEW p \in 0 .. len, Moved(p)
  PROVE  EditorInv'
<1>1. reading
  BY KeyCounts
<1>2. Fits(buf, len, p)
  BY <1>1, Facts DEF Fits
<1>3. Pressed(buf, len, p)
  BY MovedIsPressed
<1> QED BY <1>1, <1>2, <1>3, PressedKeeps

LEMMA EditKeeps ==
  ASSUME EditorInv, NEW k, Key(k), NEW b, NEW n, NEW p, Fits(b, n, p), Edited(b, n, p),
         Saved \/ UNCHANGED temp
  PROVE  EditorInv'
<1>1. reading
  BY KeyCounts
<1>2. Pressed(b, n, p)
  BY EditedIsPressed
<1> QED BY <1>1, <1>2, PressedKeeps

LEMMA MovesInv ==
  ASSUME EditorInv,
         Left \/ CtrlLeft \/ CtrlRight \/ ShiftUp \/ ShiftDown \/ Home \/ End
  PROVE  EditorInv'
<1>1. \E k : Key(k)
  BY DEF Left, CtrlLeft, CtrlRight, ShiftUp, ShiftDown, Home, End
<1>2. reading /\ len \in Nat /\ pos \in Nat /\ pos \in 0 .. len
  BY <1>1, KeyCounts, Facts
<1>3. CASE Left
  <2>1. Key("left") /\ Moved(Max({0, pos - 1}))
    BY <1>3 DEF Left
  <2>2. Max({0, pos - 1}) \in 0 .. len
    BY <1>2, MaxOfTwo
  <2> QED BY <2>1, <2>2, MoveKeeps
<1>4. CASE CtrlLeft
  <2>1. Key("ctrl_left") /\ Moved(WordLeft(pos))
    BY <1>4 DEF CtrlLeft
  <2>2. WordLeft(pos) \in 0 .. len
    BY <1>2, WordLeftIn
  <2> QED BY <2>1, <2>2, MoveKeeps
<1>5. CASE CtrlRight
  <2>1. Key("ctrl_right") /\ Moved(WordRight(pos))
    BY <1>5 DEF CtrlRight
  <2>2. WordRight(pos) \in 0 .. len
    BY <1>2, WordRightIn
  <2> QED BY <2>1, <2>2, MoveKeeps
<1>6. CASE ShiftUp
  <2> DEFINE p == IF CanGoUp(pos) THEN UpFrom(pos) ELSE pos
  <2>1. Key("shift_up") /\ Moved(p)
    BY <1>6 DEF ShiftUp
  <2>2. p \in 0 .. len
    <3>1. CanGoUp(pos) => UpFrom(pos) \in 0 .. pos
      BY <1>2, UpIn
    <3> QED BY <1>2, <3>1
  <2> HIDE DEF p
  <2> QED BY <2>1, <2>2, MoveKeeps
<1>7. CASE ShiftDown
  <2> DEFINE p == IF CanGoDown(pos) THEN DownFrom(pos) ELSE pos
  <2>1. Key("shift_down") /\ Moved(p)
    BY <1>7 DEF ShiftDown
  <2>2. p \in 0 .. len
    <3>1. CanGoDown(pos) => DownFrom(pos) \in 0 .. len
      BY <1>2, DownIn
    <3> QED BY <1>2, <3>1
  <2> HIDE DEF p
  <2> QED BY <2>1, <2>2, MoveKeeps
<1>8. CASE Home
  <2>1. Key("home") /\ Moved(LineStart(pos))
    BY <1>8 DEF Home
  <2>2. LineStart(pos) \in 0 .. len
    <3>1. LineStart(pos) \in 0 .. pos
      BY <1>2, LineStartIn
    <3> QED BY <1>2, <3>1
  <2> QED BY <2>1, <2>2, MoveKeeps
<1>9. CASE End
  <2>1. Key("end") /\ Moved(LineEnd(pos))
    BY <1>9 DEF End
  <2>2. LineEnd(pos) \in 0 .. len
    <3>1. LineEnd(pos) \in pos .. len
      BY <1>2, LineEndIn
    <3> QED BY <1>2, <3>1
  <2> QED BY <2>1, <2>2, MoveKeeps
<1> QED BY <1>3, <1>4, <1>5, <1>6, <1>7, <1>8, <1>9

LEMMA RemoveInv ==
  ASSUME EditorInv, Backspace \/ Delete
  PROVE  EditorInv'
<1>1. \E k : Key(k)
  BY DEF Backspace, Delete
<1>2. /\ reading /\ MaxLen \in Nat /\ len \in 0 .. (MaxLen - 1) /\ pos \in 0 .. len
      /\ buf \in [0 .. (MaxLen - 1) -> Bytes] /\ DOMAIN buf = 0 .. (MaxLen - 1)
      /\ \A i \in 0 .. (len - 1) : buf[i] # NUL
      /\ Fits(buf, len, pos)
  BY <1>1, KeyCounts, Facts
<1> DEFINE without(p) == [i \in DOMAIN buf |-> IF i \in p .. (len - 1) THEN buf[i + 1] ELSE buf[i]]
<1>3. ASSUME NEW p \in 0 .. (len - 1) PROVE Fits(without(p), len - 1, p)
  <2> DEFINE b == without(p)
  <2>1. \A i \in 0 .. (MaxLen - 1) : b[i] = IF i \in p .. (len - 1) THEN buf[i + 1] ELSE buf[i]
    BY <1>2
  <2>2. b \in [0 .. (MaxLen - 1) -> Bytes]
    <3>1. \A i \in 0 .. (MaxLen - 1) : b[i] \in Bytes
      <4>1. \A i \in p .. (len - 1) : i + 1 \in 0 .. (MaxLen - 1)
        BY <1>2, <1>3
      <4> HIDE DEF b
      <4> QED BY <1>2, <2>1, <4>1
    <3>2. b = [i \in 0 .. (MaxLen - 1) |-> b[i]]
      BY <1>2
    <3> HIDE DEF b
    <3> QED BY <3>1, <3>2
  <2>3. \A i \in 0 .. ((len - 1) - 1) : b[i] # NUL
    <3>1. \A i \in 0 .. ((len - 1) - 1) :
            i \in 0 .. (MaxLen - 1) /\ i \in 0 .. (len - 1) /\ i + 1 \in 0 .. (len - 1)
      BY <1>2
    <3> HIDE DEF b
    <3> QED BY <1>2, <2>1, <3>1
  <2>4. len - 1 \in 0 .. (MaxLen - 1) /\ p \in 0 .. (len - 1)
    BY <1>2, <1>3
  <2> HIDE DEF b
  <2>5. Fits(b, len - 1, p)
    BY <2>2, <2>3, <2>4 DEF Fits
  <2> QED BY <2>5 DEF b
<1> HIDE DEF without
<1>4. CASE Backspace
  <2>1. Key("backspace")
    BY <1>4 DEF Backspace
  <2>2. CASE pos = 0
    <3>1. Moved(pos)
      BY <1>4, <2>2 DEF Backspace
    <3> QED BY <1>2, <2>1, <3>1, MoveKeeps
  <2>3. CASE pos # 0
    <3>1. Edited(without(pos - 1), len - 1, pos - 1) /\ Saved
      BY <1>4, <2>3 DEF Backspace, without
    <3>2. Fits(without(pos - 1), len - 1, pos - 1)
      BY <1>2, <1>3, <2>3
    <3> QED BY <2>1, <3>1, <3>2, EditKeeps
  <2> QED BY <2>2, <2>3
<1>5. CASE Delete
  <2>1. Key("delete") /\ UNCHANGED temp
    BY <1>5 DEF Delete
  <2>2. CASE pos = len
    <3>1. Edited(buf, len, pos)
      BY <1>5, <2>2 DEF Delete
    <3> QED BY <1>2, <2>1, <3>1, EditKeeps
  <2>3. CASE pos # len
    <3>1. Edited(without(pos), len - 1, pos)
      BY <1>5, <2>3 DEF Delete, without
    <3>2. Fits(without(pos), len - 1, pos)
      BY <1>2, <1>3, <2>3
    <3> QED BY <2>1, <3>1, <3>2, EditKeeps
  <2> QED BY <2>2, <2>3
<1> QED BY <1>4, <1>5

-----------------------------------------------------------------------------
(* Keys that put characters in: k places are opened at p. *)
LEMMA GapFits ==
  ASSUME NEW c, NEW n, NEW p, Fits(c, n, p), NEW k \in Nat, n + k < MaxLen,
         NEW b \in [0 .. (MaxLen - 1) -> Bytes],
         \A i \in 0 .. (p - 1) : b[i] = c[i],
         \A i \in p .. ((p + k) - 1) : b[i] # NUL,
         \A i \in (p + k) .. ((n + k) - 1) : b[i] = c[i - k]
  PROVE  Fits(b, n + k, p + k)
<1>1. /\ MaxLen \in Nat /\ n \in 0 .. (MaxLen - 1) /\ p \in 0 .. n
      /\ \A i \in 0 .. (n - 1) : c[i] # NUL
  BY EditorAssumption DEF Fits
<1>2. ASSUME NEW i \in 0 .. ((n + k) - 1) PROVE b[i] # NUL
  <2>1. CASE i < p
    BY <1>1, <1>2, <2>1
  <2>2. CASE i >= p /\ i < p + k
    BY <1>1, <1>2, <2>2
  <2>3. CASE i >= p + k
    <3>1. i \in (p + k) .. ((n + k) - 1) /\ i - k \in 0 .. (n - 1)
      BY <1>1, <1>2, <2>3
    <3> QED BY <1>1, <3>1
  <2> QED BY <1>1, <1>2, <2>1, <2>2, <2>3
<1>3. n + k \in 0 .. (MaxLen - 1) /\ p + k \in 0 .. (n + k)
  BY <1>1
<1> QED BY <1>2, <1>3 DEF Fits

LEMMA NewlineKeeps ==
  ASSUME EditorInv, NEW k, Key(k), InsertNewline, Saved
  PROVE  EditorInv'
<1>1. /\ reading /\ MaxLen \in Nat /\ len \in 0 .. (MaxLen - 1) /\ pos \in 0 .. len
      /\ len \in Nat /\ pos \in Nat /\ Indent \in Nat
      /\ buf \in [0 .. (MaxLen - 1) -> Bytes] /\ DOMAIN buf = 0 .. (MaxLen - 1)
      /\ Fits(buf, len, pos)
  BY KeyCounts, Facts
<1> DEFINE start  == LineStart(pos)
           indent == IndentOf(start, pos)
           word   == Run(Letters, start + indent, pos)
           braces == Occurrences({"{"}, start, pos) - Occurrences({"}"}, start, pos)
           opens  == /\ braces = 0 /\ IsBlockWord(start + indent, word)
                     /\ Occurrences({";", "}"}, start + indent + word, pos) = 0
           more   == IF opens THEN 1 ELSE braces
           target == Max({0, indent + Indent * more})
           b      == [i \in DOMAIN buf |-> IF i = pos THEN NL
                                           ELSE IF i \in (pos + 1) .. (pos + target) THEN " "
                                           ELSE Shifted(pos, 1 + target)[i]]
<1>2. \/ /\ len + 1 + target < MaxLen - 1
         /\ Edited(b, len + 1 + target, pos + 1 + target)
      \/ Edited(buf, len, pos)
  BY DEF InsertNewline
<1>3. target \in Nat
  <2>1. start \in 0 .. pos
    BY <1>1, LineStartIn
  <2>2. indent \in 0 .. (pos - start)
    BY <1>1, <2>1, RunIn DEF IndentOf
  <2>3. braces \in Int
    <3>1. start \in Nat
      BY <2>1
    <3> HIDE DEF start
    <3>2. Occurrences({"{"}, start, pos) \in Nat
      BY <1>1, <3>1, OccurrencesIn
    <3>3. Occurrences({"}"}, start, pos) \in Nat
      BY <1>1, <3>1, OccurrencesIn
    <3>4. \A m \in Nat, n \in Nat : m - n \in Int
      OBVIOUS
    <3> QED BY <3>2, <3>3, <3>4, Zenon
  <2>4. more \in Int
    <3> HIDE DEF opens, braces
    <3> QED BY <2>3
  <2> HIDE DEF start, indent, more
  <2>5. Indent * more \in Int
    BY <1>1, <2>4
  <2>6. indent + Indent * more \in Int
    BY <2>1, <2>2, <2>5, <1>1
  <2> QED BY <2>6, MaxOfTwo
<1> HIDE DEF target
<1>4. CASE len + 1 + target < MaxLen - 1 /\ Edited(b, len + 1 + target, pos + 1 + target)
  <2>1. \A i \in 0 .. (MaxLen - 1) :
          b[i] = IF i = pos THEN NL
                 ELSE IF i \in (pos + 1) .. (pos + target) THEN " "
                 ELSE IF i \in (pos + (1 + target)) .. (len + (1 + target)) THEN buf[i - (1 + target)]
                 ELSE buf[i]
    BY <1>1 DEF Shifted
  <2>2. b = [i \in 0 .. (MaxLen - 1) |-> b[i]]
    BY <1>1
  <2> HIDE DEF b
  <2>3. \A i \in 0 .. (MaxLen - 1) : b[i] \in Bytes
    <3>1. \A i \in 0 .. (MaxLen - 1) :
            i \in (pos + (1 + target)) .. (len + (1 + target)) => i - (1 + target) \in 0 .. (MaxLen - 1)
      BY <1>1, <1>3
    <3> QED BY <1>1, <2>1, <3>1, BytesAre
  <2>4. b \in [0 .. (MaxLen - 1) -> Bytes]
    BY <2>2, <2>3
  <2>5. \A i \in 0 .. (pos - 1) : b[i] = buf[i]
    <3>1. \A i \in 0 .. (pos - 1) :
            /\ i \in 0 .. (MaxLen - 1) /\ i # pos /\ i \notin (pos + 1) .. (pos + target)
            /\ i \notin (pos + (1 + target)) .. (len + (1 + target))
      BY <1>1, <1>3
    <3> QED BY <2>1, <3>1
  <2>6. \A i \in pos .. ((pos + (1 + target)) - 1) : b[i] # NUL
    <3>1. \A i \in pos .. ((pos + (1 + target)) - 1) :
            i \in 0 .. (MaxLen - 1) /\ (i = pos \/ i \in (pos + 1) .. (pos + target))
      BY <1>1, <1>3, <1>4
    <3> QED BY <2>1, <3>1, BytesAre
  <2>7. \A i \in (pos + (1 + target)) .. ((len + (1 + target)) - 1) : b[i] = buf[i - (1 + target)]
    <3>1. \A i \in (pos + (1 + target)) .. ((len + (1 + target)) - 1) :
            /\ i \in 0 .. (MaxLen - 1) /\ i # pos /\ i \notin (pos + 1) .. (pos + target)
            /\ i \in (pos + (1 + target)) .. (len + (1 + target))
      BY <1>1, <1>3, <1>4
    <3> QED BY <2>1, <3>1
  <2>8. 1 + target \in Nat /\ len + (1 + target) < MaxLen
    BY <1>1, <1>3, <1>4
  <2>9. Fits(b, len + (1 + target), pos + (1 + target))
    BY <1>1, <2>4, <2>5, <2>6, <2>7, <2>8, GapFits
  <2>10. len + (1 + target) = len + 1 + target /\ pos + (1 + target) = pos + 1 + target
    BY <1>1, <1>3
  <2>11. Fits(b, len + 1 + target, pos + 1 + target)
    BY <2>9, <2>10
  <2> QED BY <1>4, <2>11, EditKeeps
<1>5. CASE Edited(buf, len, pos)
  BY <1>1, <1>5, EditKeeps
<1> HIDE DEF b
<1> QED BY <1>2, <1>4, <1>5

-----------------------------------------------------------------------------
(* A line that is entered. *)
LEMMA BehindAll ==
  ASSUME NEW q \in Nat, NEW S \in SUBSET (0 .. (q - 1))
  PROVE  Max({0} \cup {i + 1 : i \in S}) \in 0 .. q
<1> DEFINE T == {0} \cup {i + 1 : i \in S}
<1>1. T \in SUBSET (0 .. q) /\ T # {}
  OBVIOUS
<1> HIDE DEF T
<1>2. Max(T) \in 0 .. q
  BY <1>1, MaxOf
<1> QED BY <1>2 DEF T

LEMMA RememberedIn ==
  ASSUME history \in Seq(Lines), Len(history) =< MaxHistory, NEW line \in Lines
  PROVE  /\ Remembered(line) \in Seq(Lines)
         /\ Len(Remembered(line)) =< MaxHistory
         /\ Len(history) =< Len(Remembered(line))
<1>1. MaxHistory \in Nat \ {0} /\ Len(history) \in Nat
  BY EditorAssumption, LenProperties
<1>2. CASE Remembered(line) = history
  BY <1>1, <1>2
<1>3. CASE Len(history) < MaxHistory /\ Remembered(line) = Append(history, line)
  BY <1>1, <1>3, AppendProperties
<1>4. CASE Len(history) >= MaxHistory /\ Remembered(line) = Append(Tail(history), line)
  <2>1. history # <<>>
    BY <1>1, <1>4
  <2>2. Tail(history) \in Seq(Lines) /\ Len(Tail(history)) = Len(history) - 1
    BY <1>1, <2>1, HeadTailProperties
  <2>3. /\ Append(Tail(history), line) \in Seq(Lines)
        /\ Len(Append(Tail(history), line)) = Len(Tail(history)) + 1
    BY <2>2, AppendProperties
  <2> QED BY <1>1, <1>4, <2>2, <2>3
<1> QED BY <1>1, <1>2, <1>3, <1>4 DEF Remembered

(* The text without the blanks behind it is a line. *)
Trimmed == Max({0} \cup {i + 1 : i \in {i \in 0 .. (len - 1) : buf[i] # " "}})

LEMMA TrimmedIs ==
  ASSUME EditorInv, reading
  PROVE  Trimmed \in 0 .. len /\ Part(buf, 0, Trimmed) \in Lines
<1> DEFINE S == {i \in 0 .. (len - 1) : buf[i] # " "}
           n == Trimmed
<1>1. /\ MaxLen \in Nat /\ len \in 0 .. (MaxLen - 1) /\ len \in Nat
      /\ buf \in [0 .. (MaxLen - 1) -> Bytes]
      /\ \A i \in 0 .. (len - 1) : buf[i] # NUL
  BY Facts
<1>2. n \in 0 .. len
  <2>1. S \in SUBSET (0 .. (len - 1)) /\ n = Max({0} \cup {i + 1 : i \in S})
    BY DEF Trimmed
  <2> HIDE DEF S, n
  <2> QED BY <1>1, <2>1, BehindAll
<1> HIDE DEF n
<1>3. n \in Nat /\ n =< MaxLen /\ n < MaxLen /\ \A i \in 0 .. (n - 1) : buf[i] # NUL
  BY <1>1, <1>2
<1>4. Part(buf, 0, n) \in Strings /\ Len(Part(buf, 0, n)) = n
  BY <1>1, <1>3, PartIsString
<1>5. Part(buf, 0, n) \in Lines
  BY <1>3, <1>4 DEF Lines
<1> QED BY <1>2, <1>5 DEF n

LEMMA EnterInv ==
  ASSUME EditorInv, NEW k, Enter(k)
  PROVE  EditorInv'
<1>1. Key(k)
  BY DEF Enter
<1>2. /\ reading /\ pressed' \in 0 .. MaxKeys
      /\ MaxLen \in Nat /\ len \in 0 .. (MaxLen - 1) /\ pos \in 0 .. len /\ len \in Nat
      /\ buf \in [0 .. (MaxLen - 1) -> Bytes] /\ DOMAIN buf = 0 .. (MaxLen - 1)
      /\ \A i \in 0 .. (len - 1) : buf[i] # NUL
  BY <1>1, KeyCounts, Facts
<1>3. CASE Moved(pos)
  BY <1>1, <1>2, <1>3, MoveKeeps
<1>4. CASE InsertNewline /\ Saved
  BY <1>1, <1>4, NewlineKeeps
<1>5. CASE /\ ~ Moved(pos) /\ ~ (InsertNewline /\ Saved)
  <2> DEFINE n    == Trimmed
             line == Part(buf, 0, n)
             b    == [i \in DOMAIN buf |-> IF i \in n .. len THEN NUL ELSE buf[i]]
  <2>1. /\ buf' = b /\ len' = n
        /\ history' = Remembered(line)
        /\ entered' = Append(entered, line)
        /\ reading' = FALSE
        /\ UNCHANGED view
    BY <1>5 DEF Enter, Trimmed
  <2>2. n \in 0 .. len /\ line \in Lines
    BY <1>2, TrimmedIs
  <2> HIDE DEF n
  <2>5. Fits(b, n, 0)
    <3>1. \A i \in 0 .. (MaxLen - 1) : b[i] = IF i \in n .. len THEN NUL ELSE buf[i]
      BY <1>2
    <3>2. b = [i \in 0 .. (MaxLen - 1) |-> b[i]]
      BY <1>2
    <3> HIDE DEF b
    <3>3. \A i \in 0 .. (MaxLen - 1) : b[i] \in Bytes
      BY <1>2, <3>1, BytesAre
    <3>4. b \in [0 .. (MaxLen - 1) -> Bytes]
      BY <3>2, <3>3
    <3>5. \A i \in 0 .. (n - 1) : b[i] # NUL
      <4>1. \A i \in 0 .. (n - 1) : i \in 0 .. (MaxLen - 1) /\ i \notin n .. len /\ i \in 0 .. (len - 1)
        BY <1>2, <2>2
      <4> QED BY <1>2, <3>1, <4>1
    <3>6. n \in 0 .. (MaxLen - 1) /\ 0 \in 0 .. n
      BY <1>2, <2>2
    <3> QED BY <3>4, <3>5, <3>6 DEF Fits
  <2> HIDE DEF b, line
  <2>6. TextOK'
    BY <2>1, <2>5 DEF TextOK
  <2>7. HistoryOK'
    <3>1. history \in Seq(Lines) /\ entered \in Seq(Lines) /\ Len(history) =< MaxHistory
          /\ view \in 0 .. Len(history) /\ Len(history) \in Nat
      BY LenProperties DEF EditorInv, HistoryOK
    <3>2. /\ history' \in Seq(Lines) /\ Len(history') =< MaxHistory
          /\ Len(history) =< Len(history')
      BY <2>1, <2>2, <3>1, RememberedIn
    <3>3. entered' \in Seq(Lines)
      BY <2>1, <2>2, <3>1, AppendProperties
    <3>4. view' \in 0 .. Len(history')
      BY <2>1, <3>1, <3>2, LenProperties
    <3> QED BY <3>2, <3>3, <3>4 DEF HistoryOK
  <2>8. DraftOK'
    BY <2>1 DEF DraftOK
  <2> QED BY <1>2, <2>6, <2>7, <2>8 DEF EditorInv
<1> QED BY <1>3, <1>4, <1>5

LEMMA AltEnterInv ==
  ASSUME EditorInv, AltEnter
  PROVE  EditorInv'
BY NewlineKeeps DEF AltEnter

-----------------------------------------------------------------------------
(* What is suggested is longer than the word, and what is written of it ends
   inside the buffer. *)
LEMMA LongerIs ==
  ASSUME NEW words \in Seq(Strings), Longer(words) # {}
  PROVE  /\ words[FirstOf(Longer(words))] \in Strings
         /\ Len(words[FirstOf(Longer(words))]) > Len(Word)
<1> DEFINE S == Longer(words)
<1>1. S \subseteq DOMAIN words /\ \A i \in S : Len(words[i]) > Len(Word)
  BY DEF Longer
<1>2. DOMAIN words = 1 .. Len(words) /\ Len(words) \in Nat
  BY LenProperties
<1>3. S \in SUBSET Nat
  BY <1>1, <1>2
<1> HIDE DEF S
<1>4. Min(S) \in S
  BY <1>3, MinOf DEF S
<1>5. words[Min(S)] \in Strings
  BY <1>1, <1>2, <1>4, ElementOfSeq
<1> QED BY <1>1, <1>4, <1>5 DEF S, FirstOf

LEMMA SymbolsAre ==
  /\ DOMAIN Symbols \subseteq Nat
  /\ \A i \in DOMAIN Symbols :
       Symbols[i].word \in Strings /\ Symbols[i].members \in Seq(Strings)
<1>1. DOMAIN Symbols = 1 .. Len(Symbols) /\ Len(Symbols) \in Nat
  BY EditorAssumption, LenProperties
<1>2. \A i \in DOMAIN Symbols : Symbols[i] \in [word : Strings, dotted : BOOLEAN, members : Seq(Strings)]
  BY <1>1, EditorAssumption, ElementOfSeq
<1> QED BY <1>1, <1>2

LEMMA WordsAre == Owner \in Seq(Strings) /\ Names \in Seq(Strings) /\ Keywords \in Seq(Strings)
<1>1. Owner \in Seq(Strings)
  <2> DEFINE from   == Max({0} \cup {i + 1 : i \in {i \in LineStart(pos) .. (WordStart - 2) :
                                                     buf[i] \notin Letters \cup {"."}}})
             owners == {i \in DOMAIN Symbols : Symbols[i].word = Part(buf, from, WordStart - 1)}
  <2>1. Owner = IF owners = {} THEN <<>> ELSE Symbols[FirstOf(owners)].members
    BY DEF Owner
  <2>2. owners \subseteq DOMAIN Symbols
    OBVIOUS
  <2> HIDE DEF owners
  <2>3. owners \in SUBSET Nat
    BY <2>2, SymbolsAre
  <2>4. owners # {} => FirstOf(owners) \in DOMAIN Symbols
    BY <2>2, <2>3, MinOf DEF FirstOf
  <2>5. <<>> \in Seq(Strings)
    BY EmptySeq
  <2> QED BY <2>1, <2>4, <2>5, SymbolsAre
<1>2. Names \in Seq(Strings)
  <2>1. DOMAIN Symbols = 1 .. Len(Symbols) /\ Len(Symbols) \in Nat
    BY EditorAssumption, LenProperties
  <2> DEFINE e(i) == Symbols[i].word
             D    == 1 .. Len(Symbols)
  <2>2. Names = [i \in D |-> e(i)]
    BY <2>1 DEF Names
  <2>3. \A i \in D : e(i) \in Strings
    BY <2>1, SymbolsAre
  <2> HIDE DEF e, D
  <2>4. Names \in [D -> Strings]
    BY <2>2, <2>3
  <2> QED BY <2>1, <2>4 DEF D
<1> QED BY <1>1, <1>2, EditorAssumption

LEMMA Suggested ==
  ASSUME EditorInv, reading, Suggestion # <<>>
  PROVE  /\ pos = len
         /\ Suggestion[1].word \in Strings /\ Len(Suggestion[1].word) > Len(Word)
         /\ Suggestion[1].behind \in Characters
<1>1. pos = len
  BY DEF Suggestion
<1>2. /\ DOMAIN Symbols \subseteq Nat
      /\ " " \in Characters /\ "." \in Characters
  BY SymbolsAre, BytesAre
<1>3. CASE Longer(Owner) # {} /\ Suggestion = <<[word |-> Owner[FirstOf(Longer(Owner))], behind |-> " "]>>
  BY <1>1, <1>2, <1>3, LongerIs, WordsAre
<1>4. CASE /\ Longer(Names) # {}
           /\ Suggestion = <<[word   |-> Symbols[FirstOf(Longer(Names))].word,
                              behind |-> IF Symbols[FirstOf(Longer(Names))].dotted THEN "." ELSE " "]>>
  <2> DEFINE i == FirstOf(Longer(Names))
  <2>1. Names[i] \in Strings /\ Len(Names[i]) > Len(Word)
    BY <1>4, LongerIs, WordsAre
  <2>2. i \in DOMAIN Symbols
    <3>1. Longer(Names) \subseteq DOMAIN Symbols
      BY DEF Longer, Names
    <3>2. Longer(Names) \in SUBSET Nat
      BY <1>2, <3>1
    <3>3. Min(Longer(Names)) \in Longer(Names)
      BY <1>4, <3>2, MinOf
    <3> QED BY <3>1, <3>3 DEF FirstOf
  <2>3. Names[i] = Symbols[i].word
    BY <2>2 DEF Names
  <2>4. Suggestion[1].word = Symbols[i].word /\ Suggestion[1].behind \in {".", " "}
    BY <1>4
  <2> HIDE DEF i
  <2>5. Suggestion[1].behind \in Characters
    BY <1>2, <2>4
  <2> QED BY <1>1, <2>1, <2>3, <2>4, <2>5
<1>5. CASE /\ Longer(Keywords) # {}
           /\ Suggestion = <<[word |-> Keywords[FirstOf(Longer(Keywords))], behind |-> " "]>>
  BY <1>1, <1>2, <1>5, LongerIs, WordsAre
<1>6. \/ Longer(Owner) # {} /\ Suggestion = <<[word |-> Owner[FirstOf(Longer(Owner))], behind |-> " "]>>
      \/ /\ Longer(Names) # {}
         /\ Suggestion = <<[word   |-> Symbols[FirstOf(Longer(Names))].word,
                            behind |-> IF Symbols[FirstOf(Longer(Names))].dotted THEN "." ELSE " "]>>
      \/ /\ Longer(Keywords) # {}
         /\ Suggestion = <<[word |-> Keywords[FirstOf(Longer(Keywords))], behind |-> " "]>>
  BY Zenon DEF Suggestion
<1> QED BY <1>3, <1>4, <1>5, <1>6

LEMMA WrittenFits ==
  ASSUME EditorInv, reading, pos = len, NEW s \in Strings, Len(s) > Len(Word)
  PROVE  /\ len + Added(s) \in len .. (MaxLen - 1)
         /\ Fits(Written(s), len + Added(s), len + Added(s))
<1> DEFINE w == WordStart
           k == Cut(s)
           b == Written(s)
<1>1. /\ MaxLen \in Nat /\ len \in 0 .. (MaxLen - 1) /\ len \in Nat
      /\ buf \in [0 .. (MaxLen - 1) -> Bytes] /\ DOMAIN buf = 0 .. (MaxLen - 1)
      /\ \A i \in 0 .. (len - 1) : buf[i] # NUL
  BY Facts
<1>2. w \in 0 .. len
  BY <1>1, WordStartIn
<1>3. Len(Word) = len - w
  <2>1. w \in Nat /\ w =< len /\ len =< MaxLen
    BY <1>1, <1>2
  <2>2. Len(Part(buf, w, len)) = len - w
    BY <1>1, <2>1, PartIs
  <2> QED BY <2>2 DEF Word
<1>4. s \in Seq(Characters) /\ Len(s) \in Nat
  BY LenProperties DEF Strings
<1>5. k = Min({Len(s), MaxLen - w - 1})
  BY DEF Cut
<1>6. b = [i \in 0 .. (MaxLen - 1) |->
             IF i \in w .. (w + k - 1) THEN s[i - w + 1] ELSE IF i = w + k THEN NUL ELSE buf[i]]
  BY <1>1 DEF Written
<1>7. Added(s) = k - (len - w)
  BY <1>3 DEF Added
<1> HIDE DEF w, k, b
<1>8. k \in (len - w) .. Len(s) /\ w + k =< MaxLen - 1
  <2>1. MaxLen - w - 1 \in Int
    BY <1>1, <1>2
  <2>2. k = IF Len(s) =< MaxLen - w - 1 THEN Len(s) ELSE MaxLen - w - 1
    BY <1>4, <1>5, <2>1, MinOfTwo
  <2> QED BY <1>1, <1>2, <1>3, <1>4, <2>2
<1>9. len + Added(s) = w + k
  BY <1>1, <1>2, <1>4, <1>7, <1>8
<1>10. \A i \in 1 .. Len(s) : s[i] \in Bytes /\ s[i] # NUL
  BY <1>4, ElementOfSeq, BytesAre
<1>11. \A i \in w .. (w + k - 1) : i - w + 1 \in 1 .. Len(s)
  BY <1>1, <1>2, <1>4, <1>8
<1>12. \A i \in 0 .. (MaxLen - 1) : b[i] \in Bytes
  BY <1>1, <1>6, <1>10, <1>11, BytesAre
<1>13. b \in [0 .. (MaxLen - 1) -> Bytes]
  BY <1>6, <1>12
<1>14. \A i \in 0 .. ((w + k) - 1) : b[i] # NUL
  <2>1. \A i \in 0 .. ((w + k) - 1) :
          /\ i \in 0 .. (MaxLen - 1) /\ i # w + k
          /\ i \in w .. (w + k - 1) \/ (i \notin w .. (w + k - 1) /\ i \in 0 .. (len - 1))
    BY <1>1, <1>2, <1>4, <1>8
  <2> QED BY <1>1, <1>6, <1>10, <1>11, <2>1
<1>15. w + k \in len .. (MaxLen - 1) /\ w + k \in 0 .. (MaxLen - 1) /\ w + k \in 0 .. (w + k)
  BY <1>1, <1>2, <1>4, <1>8
<1> QED BY <1>9, <1>13, <1>14, <1>15 DEF Fits, b

LEMMA ShorterFits ==
  ASSUME NEW b, NEW n, Fits(b, n, n), NEW m \in 0 .. n
  PROVE  Fits(b, m, m)
BY EditorAssumption DEF Fits

(* A character put behind the text, and any byte behind that one. *)
LEMMA AppendedFits ==
  ASSUME NEW b, NEW n, Fits(b, n, n), n + 1 < MaxLen - 1, NEW c \in Characters, NEW d \in Bytes
  PROVE  Fits([b EXCEPT ![n + 1] = d, ![n] = c], n + 1, n + 1)
<1> DEFINE e == [b EXCEPT ![n + 1] = d, ![n] = c]
<1>1. /\ MaxLen \in Nat /\ n \in Nat /\ b \in [0 .. (MaxLen - 1) -> Bytes]
      /\ \A i \in 0 .. (n - 1) : b[i] # NUL
      /\ c \in Bytes /\ c # NUL
  <2>1. c \in Bytes /\ c # NUL
    BY BytesAre
  <2> QED BY <2>1, EditorAssumption DEF Fits
<1>2. e = [i \in 0 .. (MaxLen - 1) |-> IF i = n THEN c ELSE IF i = n + 1 THEN d ELSE b[i]]
  BY <1>1
<1> HIDE DEF e
<1>3. e \in [0 .. (MaxLen - 1) -> Bytes]
  BY <1>1, <1>2
<1>4. \A i \in 0 .. ((n + 1) - 1) : e[i] # NUL
  <2>1. \A i \in 0 .. ((n + 1) - 1) :
          /\ i \in 0 .. (MaxLen - 1) /\ i # n + 1
          /\ i = n \/ i \in 0 .. (n - 1)
    BY <1>1
  <2> QED BY <1>1, <1>2, <2>1
<1>5. n + 1 \in 0 .. (MaxLen - 1) /\ n + 1 \in 0 .. (n + 1)
  BY <1>1
<1> QED BY <1>3, <1>4, <1>5 DEF Fits, e

LEMMA TabInv ==
  ASSUME EditorInv, Tab
  PROVE  EditorInv'
<1>1. Key("tab")
  BY DEF Tab
<1>2. /\ reading /\ MaxLen \in Nat /\ len \in 0 .. (MaxLen - 1) /\ pos \in 0 .. len
      /\ len \in Nat /\ pos \in Nat /\ Indent \in Nat
      /\ buf \in [0 .. (MaxLen - 1) -> Bytes] /\ DOMAIN buf = 0 .. (MaxLen - 1)
      /\ Fits(buf, len, pos)
  BY <1>1, KeyCounts, Facts
<1>3. CASE Suggestion # <<>> /\ Accept(Suggestion[1])
  <2> DEFINE s == Suggestion[1]
             b == Written(s.word)
             n == Added(s.word)
  <2>1. \/ /\ len + n + 1 < MaxLen - 1
           /\ Edited([b EXCEPT ![len + n + 1] = b[len], ![len + n] = s.behind], len + n + 1, len + n + 1)
        \/ Edited(b, len, pos)
    BY <1>3 DEF Accept
  <2>2. UNCHANGED temp
    BY <1>3 DEF Accept
  <2>3. /\ pos = len /\ s.word \in Strings /\ Len(s.word) > Len(Word)
        /\ s.behind \in Characters
    BY <1>2, <1>3, Suggested
  <2>4. len + n \in len .. (MaxLen - 1) /\ Fits(b, len + n, len + n)
    BY <1>2, <2>3, WrittenFits
  <2> HIDE DEF s, b, n
  <2>5. b[len] \in Bytes
    BY <1>2, <2>4 DEF Fits
  <2>6. CASE /\ len + n + 1 < MaxLen - 1
             /\ Edited([b EXCEPT ![len + n + 1] = b[len], ![len + n] = s.behind], len + n + 1, len + n + 1)
    <3>1. Fits([b EXCEPT ![len + n + 1] = b[len], ![len + n] = s.behind], len + n + 1, len + n + 1)
      <4>1. \A m : Fits(b, m, m) /\ m + 1 < MaxLen - 1 =>
              Fits([b EXCEPT ![m + 1] = b[len], ![m] = s.behind], m + 1, m + 1)
        BY <2>3, <2>5, AppendedFits
      <4> QED BY <2>4, <2>6, <4>1
    <3> QED BY <1>1, <2>2, <2>6, <3>1, EditKeeps
  <2>7. CASE Edited(b, len, pos)
    <3>1. Fits(b, len, pos)
      <4>1. len \in 0 .. (len + n)
        BY <1>2, <2>4
      <4> QED BY <2>3, <2>4, <4>1, ShorterFits
    <3> QED BY <1>1, <2>2, <2>7, <3>1, EditKeeps
  <2> QED BY <2>1, <2>6, <2>7
<1>4. CASE Tabulate
  <2> DEFINE b == [i \in DOMAIN buf |-> IF i \in pos .. (pos + Indent - 1) THEN " "
                                        ELSE IF i \in (pos + Indent) .. (len + Indent - 1) THEN buf[i - Indent]
                                        ELSE buf[i]]
  <2>1. \/ len + Indent < MaxLen - 1 /\ Edited(b, len + Indent, pos + Indent) /\ Saved
        \/ Moved(pos)
    BY <1>4 DEF Tabulate
  <2>2. ASSUME len + Indent < MaxLen - 1 PROVE Fits(b, len + Indent, pos + Indent)
    <3>1. \A i \in 0 .. (MaxLen - 1) :
            b[i] = IF i \in pos .. (pos + Indent - 1) THEN " "
                   ELSE IF i \in (pos + Indent) .. (len + Indent - 1) THEN buf[i - Indent]
                   ELSE buf[i]
      BY <1>2
    <3>2. b = [i \in 0 .. (MaxLen - 1) |-> b[i]]
      BY <1>2
    <3> HIDE DEF b
    <3>3. b \in [0 .. (MaxLen - 1) -> Bytes]
      <4>1. \A i \in 0 .. (MaxLen - 1) :
              i \in (pos + Indent) .. (len + Indent - 1) => i - Indent \in 0 .. (MaxLen - 1)
        BY <1>2
      <4>2. \A i \in 0 .. (MaxLen - 1) : b[i] \in Bytes
        BY <1>2, <3>1, <4>1, BytesAre
      <4> QED BY <3>2, <4>2
    <3>4. \A i \in 0 .. (pos - 1) : b[i] = buf[i]
      <4>1. \A i \in 0 .. (pos - 1) :
              /\ i \in 0 .. (MaxLen - 1) /\ i \notin pos .. (pos + Indent - 1)
              /\ i \notin (pos + Indent) .. (len + Indent - 1)
        BY <1>2
      <4> QED BY <3>1, <4>1
    <3>5. \A i \in pos .. ((pos + Indent) - 1) : b[i] # NUL
      <4>1. \A i \in pos .. ((pos + Indent) - 1) :
              i \in 0 .. (MaxLen - 1) /\ i \in pos .. (pos + Indent - 1)
        BY <1>2, <2>2
      <4> QED BY <3>1, <4>1, BytesAre
    <3>6. \A i \in (pos + Indent) .. ((len + Indent) - 1) : b[i] = buf[i - Indent]
      <4>1. \A i \in (pos + Indent) .. ((len + Indent) - 1) :
              /\ i \in 0 .. (MaxLen - 1) /\ i \notin pos .. (pos + Indent - 1)
              /\ i \in (pos + Indent) .. (len + Indent - 1)
        BY <1>2, <2>2
      <4> QED BY <3>1, <4>1
    <3>7. len + Indent < MaxLen
      BY <1>2, <2>2
    <3> QED BY <1>2, <3>3, <3>4, <3>5, <3>6, <3>7, GapFits
  <2> HIDE DEF b
  <2>3. CASE len + Indent < MaxLen - 1 /\ Edited(b, len + Indent, pos + Indent) /\ Saved
    BY <1>1, <2>2, <2>3, EditKeeps
  <2>4. CASE Moved(pos)
    BY <1>1, <1>2, <2>4, MoveKeeps
  <2> QED BY <2>1, <2>3, <2>4
<1> QED BY <1>3, <1>4 DEF Tab

LEMMA RightInv ==
  ASSUME EditorInv, Right
  PROVE  EditorInv'
<1>1. Key("right")
  BY DEF Right
<1>2. /\ reading /\ MaxLen \in Nat /\ len \in 0 .. (MaxLen - 1) /\ pos \in 0 .. len
      /\ len \in Nat /\ pos \in Nat
  BY <1>1, KeyCounts, Facts
<1>3. CASE pos < len
  <2>1. Moved(pos + 1) /\ pos + 1 \in 0 .. len
    BY <1>2, <1>3 DEF Right
  <2> QED BY <1>1, <2>1, MoveKeeps
<1>4. CASE ~ (pos < len) /\ Suggestion = <<>>
  <2>1. Moved(pos)
    BY <1>4 DEF Right
  <2> QED BY <1>1, <1>2, <2>1, MoveKeeps
<1>5. CASE ~ (pos < len) /\ Suggestion # <<>>
  <2> DEFINE s == Suggestion[1].word
             n == IF len + Added(s) < MaxLen - 1 THEN len + Added(s) ELSE len
  <2>1. Edited(Written(s), n, n) /\ UNCHANGED temp
    BY <1>5 DEF Right
  <2>2. pos = len /\ s \in Strings /\ Len(s) > Len(Word)
    BY <1>2, <1>5, Suggested
  <2>3. len + Added(s) \in len .. (MaxLen - 1) /\ Fits(Written(s), len + Added(s), len + Added(s))
    BY <1>2, <2>2, WrittenFits
  <2>4. n \in 0 .. (len + Added(s))
    BY <1>2, <2>3
  <2>5. Fits(Written(s), n, n)
    <3> HIDE DEF s, n
    <3> QED BY <2>3, <2>4, ShorterFits
  <2> HIDE DEF s, n
  <2> QED BY <1>1, <2>1, <2>5, EditKeeps
<1> QED BY <1>3, <1>4, <1>5

-----------------------------------------------------------------------------
(* A character that is typed, after a closing brace has gone back. *)
LEMMA TypeInv ==
  ASSUME EditorInv, NEW c, Type(c)
  PROVE  EditorInv'
<1>1. Key(c) /\ c \in Characters
  BY DEF Type
<1>2. /\ reading /\ MaxLen \in Nat /\ len \in 0 .. (MaxLen - 1) /\ pos \in 0 .. len
      /\ len \in Nat /\ pos \in Nat /\ Indent \in Nat
      /\ buf \in [0 .. (MaxLen - 1) -> Bytes] /\ DOMAIN buf = 0 .. (MaxLen - 1)
      /\ \A i \in 0 .. (len - 1) : buf[i] # NUL
  BY <1>1, KeyCounts, Facts
<1> DEFINE spaces == pos - LineStart(pos)
           back   == IF c = "}" /\ IndentOf(LineStart(pos), pos) = spaces THEN Min({spaces, Indent}) ELSE 0
           moved  == [i \in DOMAIN buf |-> IF i \in (pos - back) .. (len - back - 1) THEN buf[i + back] ELSE buf[i]]
           p      == pos - back
           n      == len - back
           b      == [i \in DOMAIN buf |-> IF i = p THEN c ELSE IF i = n + 1 THEN NUL
                                           ELSE IF i \in (p + 1) .. n THEN moved[i - 1] ELSE moved[i]]
<1>3. \/ n < MaxLen - 1 /\ Edited(b, n + 1, p + 1) /\ Saved
      \/ Edited(moved, n, p) /\ UNCHANGED temp
  BY <1>1 DEF Type
<1>4. back \in 0 .. pos
  <2>1. spaces \in 0 .. pos
    BY <1>2, LineStartIn
  <2> HIDE DEF spaces
  <2>2. Min({spaces, Indent}) \in 0 .. pos
    BY <1>2, <2>1, MinOfTwo
  <2>3. 0 \in 0 .. pos
    BY <1>2
  <2> QED BY <2>2, <2>3, Zenon
<1>5. moved = [i \in 0 .. (MaxLen - 1) |-> IF i \in p .. (n - 1) THEN buf[i + back] ELSE buf[i]]
  BY <1>2
<1>6. b = [i \in 0 .. (MaxLen - 1) |-> IF i = p THEN c ELSE IF i = n + 1 THEN NUL
                                       ELSE IF i \in (p + 1) .. n THEN moved[i - 1] ELSE moved[i]]
  BY <1>2
<1> HIDE DEF back, moved, b
<1>7. p \in 0 .. n /\ n \in 0 .. len /\ p \in Nat /\ n \in Nat
  BY <1>2, <1>4
<1>8. Fits(moved, n, p)
  <2>1. \A i \in 0 .. (MaxLen - 1) : i \in p .. (n - 1) => i + back \in 0 .. (MaxLen - 1)
    BY <1>2, <1>4
  <2>2. \A i \in 0 .. (n - 1) :
          /\ i \in 0 .. (MaxLen - 1)
          /\ i \in p .. (n - 1) => i + back \in 0 .. (len - 1)
          /\ i \notin p .. (n - 1) => i \in 0 .. (len - 1)
    BY <1>2, <1>4
  <2>3. n \in 0 .. (MaxLen - 1)
    BY <1>2, <1>7
  <2> HIDE DEF n, p
  <2>4. \A i \in 0 .. (MaxLen - 1) : moved[i] \in Bytes
    BY <1>2, <1>5, <2>1
  <2>5. moved \in [0 .. (MaxLen - 1) -> Bytes]
    BY <1>5, <2>4
  <2>6. \A i \in 0 .. (n - 1) : moved[i] # NUL
    BY <1>2, <1>5, <2>2
  <2> QED BY <1>7, <2>3, <2>5, <2>6 DEF Fits
<1> HIDE DEF n, p
<1>9. ASSUME n < MaxLen - 1 PROVE Fits(b, n + 1, p + 1)
  <2>1. /\ moved \in [0 .. (MaxLen - 1) -> Bytes]
        /\ c \in Bytes /\ c # NUL /\ NUL \in Bytes
    BY <1>1, <1>8, BytesAre DEF Fits
  <2>2. \A i \in 0 .. (MaxLen - 1) : i \in (p + 1) .. n => i - 1 \in 0 .. (MaxLen - 1)
    BY <1>2, <1>7
  <2>3. \A i \in 0 .. (MaxLen - 1) : b[i] \in Bytes
    BY <1>6, <2>1, <2>2
  <2>4. b \in [0 .. (MaxLen - 1) -> Bytes]
    BY <1>6, <2>3
  <2>5. \A i \in 0 .. (p - 1) : b[i] = moved[i]
    <3>1. \A i \in 0 .. (p - 1) :
            i \in 0 .. (MaxLen - 1) /\ i # p /\ i # n + 1 /\ i \notin (p + 1) .. n
      BY <1>2, <1>7, <1>9
    <3> QED BY <1>6, <3>1
  <2>6. \A i \in p .. ((p + 1) - 1) : b[i] # NUL
    <3>1. \A i \in p .. ((p + 1) - 1) : i \in 0 .. (MaxLen - 1) /\ i = p
      BY <1>2, <1>7, <1>9
    <3> QED BY <1>6, <2>1, <3>1
  <2>7. \A i \in (p + 1) .. ((n + 1) - 1) : b[i] = moved[i - 1]
    <3>1. \A i \in (p + 1) .. ((n + 1) - 1) :
            i \in 0 .. (MaxLen - 1) /\ i # p /\ i # n + 1 /\ i \in (p + 1) .. n
      BY <1>2, <1>7, <1>9
    <3> QED BY <1>6, <3>1
  <2>8. 1 \in Nat /\ n + 1 < MaxLen
    BY <1>2, <1>7, <1>9
  <2> QED BY <1>8, <2>4, <2>5, <2>6, <2>7, <2>8, GapFits
<1>10. CASE n < MaxLen - 1 /\ Edited(b, n + 1, p + 1) /\ Saved
  BY <1>1, <1>9, <1>10, EditKeeps
<1>11. CASE Edited(moved, n, p) /\ UNCHANGED temp
  BY <1>1, <1>8, <1>11, EditKeeps
<1> QED BY <1>3, <1>10, <1>11

LEMMA CtrlCInv ==
  ASSUME EditorInv, CtrlC
  PROVE  EditorInv'
<1> DEFINE b == [buf EXCEPT ![0] = NUL]
<1>1. Key("ctrl_c") /\ Edited(b, 0, 0) /\ UNCHANGED temp
  BY DEF CtrlC
<1>2. Fits(b, 0, 0)
  <2>1. MaxLen \in Nat /\ MaxLen > 2 /\ buf \in [0 .. (MaxLen - 1) -> Bytes]
    BY <1>1, KeyCounts, Facts
  <2>2. b \in [0 .. (MaxLen - 1) -> Bytes]
    BY <2>1, BytesAre
  <2>3. 0 \in 0 .. (MaxLen - 1) /\ \A i \in 0 .. (0 - 1) : b[i] # NUL
    BY <2>1
  <2> QED BY <2>2, <2>3 DEF Fits
<1> HIDE DEF b
<1> QED BY <1>1, <1>2, EditKeeps

(* The prompt is entered and left. *)
LEMMA StartInv ==
  ASSUME EditorInv, Start
  PROVE  EditorInv'
<1>1. PICK f \in Fill : buf' = [i \in DOMAIN buf |-> IF i = 0 THEN NUL ELSE f]
  BY DEF Start
<1>2. /\ view' = Len(history) /\ len' = 0 /\ pos' = 0 /\ reading' = TRUE
      /\ UNCHANGED <<history, entered, pressed>>
  BY DEF Start
<1>3. /\ MaxLen \in Nat /\ MaxLen > 2 /\ Fill \subseteq Bytes
      /\ DOMAIN buf = 0 .. (MaxLen - 1)
  BY EditorAssumption DEF Bytes, EditorInv, TextOK, Fits
<1>4. buf' \in [0 .. (MaxLen - 1) -> Bytes]
  BY <1>1, <1>3, BytesAre
<1>5. Fits(buf', 0, 0)
  <2>1. 0 \in 0 .. (MaxLen - 1) /\ \A i \in 0 .. (0 - 1) : buf'[i] # NUL
    BY <1>3
  <2> QED BY <1>4, <2>1 DEF Fits
<1>6. TextOK'
  BY <1>2, <1>5 DEF TextOK
<1>7. HistoryOK'
  <2>1. Len(history) \in Nat
    BY LenProperties DEF EditorInv, HistoryOK
  <2> QED BY <1>2, <2>1 DEF EditorInv, HistoryOK
<1>8. DraftOK'
  <2>1. Len(history) \in Nat
    BY LenProperties DEF EditorInv, HistoryOK
  <2> QED BY <1>2, <2>1 DEF DraftOK
<1> QED BY <1>2, <1>6, <1>7, <1>8 DEF EditorInv

LEMMA EofInv ==
  ASSUME EditorInv, Eof
  PROVE  EditorInv'
<1>1. /\ reading' = FALSE /\ pressed' = MaxKeys
      /\ UNCHANGED <<history, view, entered, buf, len>>
  BY DEF Eof
<1>2. TextOK'
  <2>1. Fits(buf, len, 0)
    BY EditorAssumption DEF EditorInv, TextOK, Fits
  <2> QED BY <1>1, <2>1 DEF TextOK
<1>3. HistoryOK' /\ DraftOK'
  BY <1>1 DEF EditorInv, HistoryOK, DraftOK
<1>4. pressed' \in 0 .. MaxKeys
  BY <1>1, EditorAssumption
<1> QED BY <1>2, <1>3, <1>4 DEF EditorInv

-----------------------------------------------------------------------------
(* Up and down: an entry of the history is shown, or the draft again. *)
LEMMA ShownKeeps ==
  ASSUME EditorInv, reading, pressed' \in 0 .. MaxKeys,
         NEW s \in Lines, NEW v \in 0 .. Len(history), Shows(Copied(s), v)
  PROVE  TextOK' /\ HistoryOK' /\ Text' = s /\ reading' /\ UNCHANGED history
<1>1. buf \in [0 .. (MaxLen - 1) -> Bytes]
  BY Facts
<1>2. /\ AsString(Copied(s)) = s
      /\ Fits(Copied(s), Len(s), Len(s))
      /\ Part(Copied(s), 0, Len(s)) = s
  BY <1>1, CopiedIs
<1>3. /\ buf' = Copied(s) /\ view' = v
      /\ len' = Len(s) /\ pos' = Len(s)
      /\ UNCHANGED <<history, reading, entered>>
  BY <1>2 DEF Shows
<1>4. Fits(buf', len', pos')
  BY <1>2, <1>3
<1>5. TextOK'
  BY <1>3, <1>4 DEF TextOK
<1>6. HistoryOK'
  BY <1>3 DEF EditorInv, HistoryOK
<1>7. Text' = Part(buf', 0, len')
  BY DEF Text
<1> QED BY <1>2, <1>3, <1>5, <1>6, <1>7

LEMMA EntryIs ==
  ASSUME EditorInv, NEW i \in 0 .. (Len(history) - 1)
  PROVE  history[i + 1] \in Lines
<1>1. history \in Seq(Lines) /\ Len(history) \in Nat
  BY LenProperties DEF EditorInv, HistoryOK
<1>2. i + 1 \in 1 .. Len(history)
  BY <1>1
<1> QED BY <1>1, <1>2, ElementOfSeq

LEMMA UpInv ==
  ASSUME EditorInv, Up
  PROVE  EditorInv' /\ (view' = view \/ view' < view)
<1>1. Key("up")
  BY DEF Up
<1>2. /\ reading /\ pressed' \in 0 .. MaxKeys
      /\ len \in Nat /\ pos \in Nat /\ pos \in 0 .. len /\ Fits(buf, len, pos)
      /\ buf \in [0 .. (MaxLen - 1) -> Bytes]
  BY <1>1, KeyCounts, Facts
<1>3. view \in 0 .. Len(history) /\ Len(history) \in Nat /\ history \in Seq(Lines)
  BY LenProperties DEF EditorInv, HistoryOK
<1>4. CASE CanGoUp(pos) \/ view = 0
  <2> DEFINE p == IF CanGoUp(pos) THEN UpFrom(pos) ELSE pos
  <2>1. Moved(p)
    BY <1>4 DEF Up
  <2>2. p \in 0 .. len
    <3>1. CanGoUp(pos) => UpFrom(pos) \in 0 .. pos
      BY <1>2, UpIn
    <3> QED BY <1>2, <3>1
  <2>3. view' = view
    BY <2>1 DEF Moved
  <2> HIDE DEF p
  <2> QED BY <1>1, <2>1, <2>2, <2>3, MoveKeeps
<1>5. CASE ~ CanGoUp(pos) /\ view # 0
  <2> DEFINE t     == IF view = Len(history) THEN AsString(buf) ELSE temp
             found == Matching(t, 0 .. (view - 1))
             m     == Max(found)
             s     == history[m + 1]
  <2>1. /\ temp' = t
        /\ IF found = {} THEN UNCHANGED <<history, view, buf, len, pos, reading, entered, draft>>
           ELSE /\ Shows(Copied(s), m)
                /\ draft' = IF view = Len(history)
                            THEN [text |-> Text, whole |-> AsString(buf) = Text] ELSE draft
    BY <1>5 DEF Up
  <2>2. CASE found = {}
    <3>1. Pressed(buf, len, pos)
      <4>1. view = Len(history) \/ temp' = temp
        BY <2>1
      <4> HIDE DEF found, t, s, m
      <4> QED BY <1>2, <2>1, <2>2, <4>1 DEF Pressed
    <3>2. view' = view
      BY <3>1 DEF Pressed
    <3> QED BY <1>2, <3>1, <3>2, PressedKeeps
  <2>3. CASE found # {}
    <3>1. m \in found /\ m \in 0 .. (view - 1)
      <4>1. view - 1 \in Nat /\ found \in SUBSET (0 .. (view - 1))
        BY <1>3, <1>5 DEF Matching
      <4> HIDE DEF found
      <4>2. m \in found
        BY <2>3, <4>1, MaxOf
      <4> QED BY <4>1, <4>2
    <3> DEFINE prefix == t = <<>> \/ IsPrefix(t, s)
    <3>2. prefix
      BY <3>1 DEF Matching
    <3> HIDE DEF m
    <3>3. m \in 0 .. (Len(history) - 1) /\ m \in 0 .. Len(history) /\ m < view
      BY <1>3, <3>1
    <3>4. s \in Lines
      BY <3>3, EntryIs
    <3>5. /\ Shows(Copied(s), m)
          /\ draft' = IF view = Len(history)
                      THEN [text |-> Text, whole |-> AsString(buf) = Text] ELSE draft
      BY <2>1, <2>3
    <3> HIDE DEF s
    <3>6. /\ TextOK' /\ HistoryOK' /\ reading' /\ history' = history
          /\ view' = m
      BY <1>2, <3>3, <3>4, <3>5, ShownKeeps DEF Shows
    <3>7. DraftOK'
      <4>1. CASE view = Len(history)
        <5>1. t = AsString(buf) /\ t \in Strings /\ Len(t) \in Nat
          BY <1>2, <4>1, AsStringIs
        <5>2. Len(t) < MaxLen
          <6>1. s \in Seq(Characters) /\ Len(s) < MaxLen /\ Len(s) \in Nat
            BY <3>4, LenProperties DEF Lines, Strings
          <6>2. CASE t = <<>>
            BY <6>1, <6>2, EditorAssumption, EmptySeq
          <6>3. CASE IsPrefix(t, s)
            <7>1. Len(t) =< Len(s)
              BY <6>3 DEF IsPrefix
            <7> QED BY <5>1, <6>1, <7>1, EditorAssumption
          <6> QED BY <3>2, <6>2, <6>3 DEF prefix
        <5>3. t \in Lines
          BY <5>1, <5>2 DEF Lines
        <5>4. draft' = [text |-> Text, whole |-> AsString(buf) = Text]
          BY <3>5, <4>1
        <5>5. draft'.whole = (AsString(buf) = Text) /\ draft'.text = Text
          BY <5>4
        <5>6. draft'.whole => temp' = draft'.text
          BY <2>1, <5>1, <5>5, Zenon
        <5>7. temp' \in Lines
          BY <2>1, <5>3
        <5> QED BY <5>6, <5>7, Zenon DEF DraftOK
      <4>2. CASE view # Len(history)
        <5>1. temp' = temp /\ draft' = draft
          BY <2>1, <3>5, <4>2
        <5>2. view < Len(history)
          BY <1>3, <4>2
        <5>3. temp \in Lines /\ (draft.whole => temp = draft.text)
          BY <1>2, <5>2, Zenon DEF EditorInv, DraftOK
        <5> QED BY <5>1, <5>3, Zenon DEF DraftOK
      <4> QED BY <4>1, <4>2
    <3> QED BY <1>2, <3>3, <3>6, <3>7 DEF EditorInv
  <2> QED BY <2>2, <2>3
<1> QED BY <1>4, <1>5

LEMMA DownInv ==
  ASSUME EditorInv, Down
  PROVE  /\ EditorInv'
         /\ view < Len(history) /\ view' = Len(history) => Text' = temp
<1>1. Key("down")
  BY DEF Down
<1>2. /\ reading /\ pressed' \in 0 .. MaxKeys
      /\ len \in Nat /\ pos \in Nat /\ pos \in 0 .. len
  BY <1>1, KeyCounts, Facts
<1>3. view \in 0 .. Len(history) /\ Len(history) \in Nat /\ history \in Seq(Lines)
  BY LenProperties DEF EditorInv, HistoryOK
<1>4. CASE CanGoDown(pos) \/ view = Len(history)
  <2> DEFINE p == IF CanGoDown(pos) THEN DownFrom(pos) ELSE pos
  <2>1. Moved(p)
    BY <1>4 DEF Down
  <2>2. p \in 0 .. len
    <3>1. CanGoDown(pos) => DownFrom(pos) \in 0 .. len
      BY <1>2, DownIn
    <3> QED BY <1>2, <3>1
  <2>3. view' = view
    BY <2>1 DEF Moved
  <2> HIDE DEF p
  <2>4. EditorInv'
    BY <1>1, <2>1, <2>2, MoveKeeps
  <2> QED BY <1>3, <2>3, <2>4
<1>5. CASE ~ CanGoDown(pos) /\ view # Len(history)
  <2> DEFINE found == Matching(temp, (view + 1) .. (Len(history) - 1))
             to    == IF found = {} THEN Len(history) ELSE Min(found)
             s     == IF to = Len(history) THEN temp ELSE history[to + 1]
  <2>1. Shows(Copied(s), to) /\ UNCHANGED <<temp, draft>>
    BY <1>5 DEF Down
  <2>2. view < Len(history)
    BY <1>3, <1>5
  <2>3. temp \in Lines /\ (draft.whole => temp = draft.text)
    BY <1>2, <2>2, Zenon DEF EditorInv, DraftOK
  <2>4. to \in 0 .. Len(history)
    <3>1. found \in SUBSET Nat /\ found \subseteq 0 .. Len(history)
      BY <1>3 DEF Matching
    <3> HIDE DEF found
    <3>2. found # {} => Min(found) \in found
      BY <3>1, MinOf
    <3>3. Len(history) \in 0 .. Len(history)
      BY <1>3
    <3>4. found # {} => Min(found) \in 0 .. Len(history)
      BY <3>1, <3>2
    <3> QED BY <3>3, <3>4, Zenon
  <2> HIDE DEF to
  <2>5. s \in Lines
    <3>1. to # Len(history) => to \in 0 .. (Len(history) - 1)
      BY <1>3, <2>4
    <3>2. to # Len(history) => history[to + 1] \in Lines
      BY <3>1, EntryIs
    <3> QED BY <2>3, <3>2
  <2>6. to = Len(history) => s = temp
    OBVIOUS
  <2> HIDE DEF s
  <2>7. /\ TextOK' /\ HistoryOK' /\ Text' = s /\ reading' /\ history' = history
        /\ view' = to
    BY <1>2, <2>1, <2>4, <2>5, ShownKeeps DEF Shows
  <2>8. DraftOK'
    BY <2>1, <2>3, Zenon DEF DraftOK
  <2>9. EditorInv'
    BY <1>2, <2>7, <2>8 DEF EditorInv
  <2> QED BY <2>6, <2>7, <2>9
<1> QED BY <1>4, <1>5

-----------------------------------------------------------------------------
(* A key other than up and down leaves the place in the history, unless the
   line is finished by it. *)
LEMMA ViewStays ==
  ASSUME Next, reading, reading', ~ Up, ~ Down
  PROVE  view' = view
<1>1. ASSUME NEW k, Enter(k) PROVE view' = view
  BY <1>1 DEF Enter, Moved, InsertNewline, Edited
<1>2. CASE AltEnter
  BY <1>2 DEF AltEnter, InsertNewline, Edited
<1>3. CASE Backspace \/ Delete
  BY <1>3 DEF Backspace, Delete, Moved, Edited
<1>4. CASE Tab
  BY <1>4 DEF Tab, Accept, Tabulate, Moved, Edited
<1>5. CASE Left \/ CtrlLeft \/ CtrlRight \/ ShiftUp \/ ShiftDown \/ Home \/ End
  BY <1>5 DEF Left, CtrlLeft, CtrlRight, ShiftUp, ShiftDown, Home, End, Moved
<1>6. CASE Right
  BY <1>6 DEF Right, Moved, Edited
<1>7. CASE CtrlC
  BY <1>7 DEF CtrlC, Edited
<1>8. ASSUME NEW c, Type(c) PROVE view' = view
  BY <1>8 DEF Type, Edited
<1>9. ~ Start /\ ~ Eof
  BY DEF Start, Eof
<1>10. CASE Done
  BY <1>10 DEF Done, vars
<1> QED BY <1>1, <1>2, <1>3, <1>4, <1>5, <1>6, <1>7, <1>8, <1>9, <1>10 DEF Next

LEMMA InitInv == Init => EditorInv
<1> SUFFICES ASSUME Init PROVE EditorInv
  OBVIOUS
<1>1. /\ MaxLen \in Nat /\ MaxLen > 2 /\ MaxHistory \in Nat /\ MaxKeys \in Nat
  BY EditorAssumption
<1>2. /\ buf = [i \in 0 .. (MaxLen - 1) |-> NUL] /\ len = 0 /\ reading = FALSE
      /\ history = <<>> /\ entered = <<>> /\ view = 0 /\ pressed = 0
  BY DEF Init
<1>3. TextOK
  <2>1. buf \in [0 .. (MaxLen - 1) -> Bytes]
    BY <1>2, BytesAre
  <2>2. 0 \in 0 .. (MaxLen - 1) /\ 0 \in 0 .. 0 /\ 0 .. (0 - 1) = {}
    BY <1>1
  <2> QED BY <1>2, <2>1, <2>2 DEF TextOK, Fits
<1>4. HistoryOK
  BY <1>1, <1>2, EmptySeq DEF HistoryOK
<1>5. DraftOK /\ pressed \in 0 .. MaxKeys
  BY <1>1, <1>2 DEF DraftOK
<1> QED BY <1>3, <1>4, <1>5 DEF EditorInv

LEMMA NextInv == EditorInv /\ [Next]_vars => EditorInv'
<1> SUFFICES ASSUME EditorInv, [Next]_vars PROVE EditorInv'
  OBVIOUS
<1>1. CASE UNCHANGED vars
  BY <1>1 DEF vars, EditorInv, TextOK, Fits, HistoryOK, DraftOK
<1>2. CASE Start
  BY <1>2, StartInv
<1>3. ASSUME NEW k, Enter(k) PROVE EditorInv'
  BY <1>3, EnterInv
<1>4. CASE AltEnter
  BY <1>4, AltEnterInv
<1>5. CASE Backspace \/ Delete
  BY <1>5, RemoveInv
<1>6. CASE Tab
  BY <1>6, TabInv
<1>7. CASE Left \/ CtrlLeft \/ CtrlRight \/ ShiftUp \/ ShiftDown \/ Home \/ End
  BY <1>7, MovesInv
<1>8. CASE Right
  BY <1>8, RightInv
<1>9. CASE CtrlC
  BY <1>9, CtrlCInv
<1>10. CASE Up
  BY <1>10, UpInv
<1>11. CASE Down
  BY <1>11, DownInv
<1>12. ASSUME NEW c, Type(c) PROVE EditorInv'
  BY <1>12, TypeInv
<1>13. CASE Eof
  BY <1>13, EofInv
<1>14. CASE Done
  BY <1>1, <1>14 DEF Done
<1> QED BY <1>1, <1>2, <1>3, <1>4, <1>5, <1>6, <1>7, <1>8, <1>9, <1>10, <1>11, <1>12, <1>13, <1>14 DEF Next

(* Whatever keys are pressed, the text ends inside the buffer with its NUL,
   the cursor is in the text and every line of the history fits the buffer
   (get_smart_input, add_to_cmd_history). *)
THEOREM TextInBuffer == Spec => []EditorInv
<1> QED BY InitInv, NextInv, PTL DEF Spec

(* What was being written comes back behind the last entry of the history,
   for every buffer, every history and every sequence of keys
   (get_smart_input). *)
THEOREM DraftComesBack == Spec => DraftKept
<1>1. ASSUME EditorInv, Next, reading, reading', view < Len(history), view' = Len(history)
      PROVE  draft.whole => Text' = draft.text
  <2>1. view \in Nat /\ Len(history) \in Nat
    BY <1>1, LenProperties DEF EditorInv, HistoryOK
  <2>2. view' # view /\ ~ (view' < view)
    BY <1>1, <2>1
  <2>3. ~ Up
    BY <1>1, <2>2, UpInv
  <2>4. Down
    BY <1>1, <2>2, <2>3, ViewStays
  <2>5. Text' = temp
    BY <1>1, <2>4, DownInv
  <2>6. draft.whole => temp = draft.text
    BY <1>1, Zenon DEF EditorInv, DraftOK
  <2> QED BY <2>5, <2>6, Zenon
<1>2. EditorInv /\ [Next]_vars =>
        [reading /\ reading' /\ view < Len(history) /\ view' = Len(history)
           => (draft.whole => Text' = draft.text)]_vars
  BY <1>1, Zenon
<1> QED BY <1>2, TextInBuffer, PTL DEF Spec, DraftKept

-----------------------------------------------------------------------------
(* The lines worth keeping, one entered after the other. *)
With(w, line) ==
  IF line = <<>> \/ (w # <<>> /\ Last(w) = line) THEN w ELSE Append(w, line)

IsWorth(f, lines) ==
  /\ f \in [0 .. Len(lines) -> Seq(Lines)] /\ f[0] = <<>>
  /\ \A n \in 1 .. Len(lines) : f[n] = With(f[n - 1], lines[n])

LEMMA WorthIs ==
  ASSUME NEW lines \in Seq(Lines)
  PROVE  \E f : IsWorth(f, lines) /\ Worth(lines) = f[Len(lines)]
<1> DEFINE K == Len(lines)
           T == Seq(Lines)
           step == [n \in 1 .. K |-> [w \in T |-> With(w, lines[n])]]
           Step(f) == [n \in 0 .. K |-> IF n = 0 THEN <<>>
                                        ELSE IF \/ lines[n] = <<>>
                                                \/ f[n - 1] # <<>> /\ Last(f[n - 1]) = lines[n]
                                        THEN f[n - 1] ELSE Append(f[n - 1], lines[n])]
           worth == CHOOSE f : f = Step(f)
<1>1. K \in Nat /\ \A n \in 1 .. K : lines[n] \in Lines
  BY LenProperties, ElementOfSeq
<1>2. \A n \in 1 .. K : \A w \in T : With(w, lines[n]) \in T
  BY <1>1, AppendProperties DEF With
<1>3. worth = Step(worth)
  <2>1. IsSteps(step, K, T) /\ <<>> \in T
    BY <1>1, <1>2, EmptySeq DEF IsSteps
  <2>2. \A n \in 1 .. K, w \in T : step[n][w] = With(w, lines[n])
    OBVIOUS
  <2> HIDE DEF step, T, K
  <2>3. PICK f : IsRun(f, K, T, <<>>, step)
    BY <1>1, <2>1, Iteration
  <2>4. f \in [0 .. K -> T] /\ f[0] = <<>> /\ \A n \in 1 .. K : f[n] = step[n][f[n - 1]]
    BY <2>3 DEF IsRun
  <2>5. \A n \in 1 .. K : f[n - 1] \in T
    BY <1>1, <2>4
  <2>6. \A n \in 1 .. K : f[n] = With(f[n - 1], lines[n])
    BY <2>2, <2>4, <2>5
  <2>7. f = Step(f)
    <3>1. \A n \in 0 .. K : n # 0 => n \in 1 .. K
      BY <1>1
    <3> QED BY <2>4, <2>6, <3>1 DEF With
  <2> QED BY <2>7
<1>4. Worth(lines) = worth[K]
  BY DEF Worth
<1> HIDE DEF worth
<1>5. /\ worth[0] = <<>> /\ worth = [n \in 0 .. K |-> worth[n]]
      /\ \A n \in 1 .. K : worth[n] = With(worth[n - 1], lines[n])
  <2> DEFINE next == Step(worth)
  <2>1. /\ next[0] = <<>> /\ next = [n \in 0 .. K |-> next[n]]
        /\ \A n \in 1 .. K : next[n] = With(worth[n - 1], lines[n])
    BY <1>1 DEF With
  <2>2. worth = next
    BY <1>3
  <2> HIDE DEF next
  <2> QED BY <2>1, <2>2
<1> HIDE DEF Step, T, K
<1> DEFINE P == {n \in 0 .. K : worth[n] \in T}
<1>6. 0 \in P
  <2>1. 0 \in 0 .. K /\ <<>> \in T
    BY <1>1, EmptySeq DEF T
  <2> QED BY <1>5, <2>1, Zenon
<1>7. ASSUME NEW n \in 1 .. K, n - 1 \in P PROVE n \in P
  <2>1. worth[n - 1] \in T /\ n \in 0 .. K
    BY <1>1, <1>7
  <2>2. With(worth[n - 1], lines[n]) \in T
    BY <1>2, <2>1
  <2> QED BY <1>5, <2>1, <2>2, Zenon
<1> HIDE DEF P
<1>8. 0 .. K \subseteq P
  BY <1>1, <1>6, <1>7, InductionUpTo
<1>9. worth \in [0 .. K -> T]
  <2>1. \A n \in 0 .. K : worth[n] \in T
    BY <1>8 DEF P
  <2> QED BY <1>5, <2>1
<1>10. IsWorth(worth, lines)
  BY <1>5, <1>9 DEF IsWorth, K, T
<1> QED BY <1>4, <1>10 DEF K

LEMMA WorthGrows ==
  ASSUME NEW lines \in Seq(Lines), NEW l \in Lines
  PROVE  /\ Worth(lines) \in Seq(Lines)
         /\ Worth(Append(lines, l)) = With(Worth(lines), l)
<1> DEFINE K    == Len(lines)
           more == Append(lines, l)
<1>1. /\ K \in Nat /\ more \in Seq(Lines) /\ Len(more) = K + 1 /\ more[K + 1] = l
      /\ \A n \in 1 .. K : more[n] = lines[n]
  BY LenProperties, AppendProperties
<1>2. PICK f : IsWorth(f, lines) /\ Worth(lines) = f[K]
  BY WorthIs
<1>3. PICK g : IsWorth(g, more) /\ Worth(more) = g[K + 1]
  BY <1>1, WorthIs
<1> HIDE DEF K, more
<1>4. /\ f[0] = <<>> /\ f \in [0 .. K -> Seq(Lines)]
      /\ \A n \in 1 .. K : f[n] = With(f[n - 1], lines[n])
  BY <1>2 DEF IsWorth, K
<1>5. /\ g[0] = <<>>
      /\ \A n \in 1 .. (K + 1) : g[n] = With(g[n - 1], more[n])
  BY <1>1, <1>3 DEF IsWorth
<1> DEFINE P == {n \in 0 .. K : g[n] = f[n]}
<1>6. 0 \in P
  BY <1>1, <1>4, <1>5
<1>7. ASSUME NEW n \in 1 .. K, n - 1 \in P PROVE n \in P
  <2>1. n \in 1 .. (K + 1) /\ g[n - 1] = f[n - 1]
    BY <1>1, <1>7
  <2>2. g[n] = With(g[n - 1], more[n]) /\ f[n] = With(f[n - 1], lines[n]) /\ more[n] = lines[n]
    BY <1>1, <1>4, <1>5, <2>1
  <2>3. g[n] = f[n]
    BY <2>1, <2>2
  <2> QED BY <1>7, <2>3
<1> HIDE DEF P
<1>8. 0 .. K \subseteq P
  BY <1>1, <1>6, <1>7, InductionUpTo
<1>9. g[K] = f[K]
  BY <1>1, <1>8 DEF P
<1>10. g[K + 1] = With(g[(K + 1) - 1], more[K + 1]) /\ (K + 1) - 1 = K
  BY <1>1, <1>5
<1>11. Worth(more) = With(Worth(lines), l)
  BY <1>1, <1>2, <1>3, <1>9, <1>10
<1>12. Worth(lines) \in Seq(Lines)
  BY <1>1, <1>2, <1>4
<1> QED BY <1>11, <1>12 DEF more

-----------------------------------------------------------------------------
(* The last lines of w, as many as the history has room for. *)
FirstKept(w) == Max({1, (Len(w) - MaxHistory) + 1})
Recent(w) == SubSeq(w, FirstKept(w), Len(w))

LEMMA RecentIs ==
  ASSUME NEW w \in Seq(Lines)
  PROVE  /\ FirstKept(w) = IF Len(w) =< MaxHistory THEN 1 ELSE (Len(w) - MaxHistory) + 1
         /\ Recent(w) \in Seq(Lines) /\ Len(Recent(w)) = (Len(w) - FirstKept(w)) + 1
         /\ \A i \in 1 .. Len(Recent(w)) : Recent(w)[i] = w[(FirstKept(w) + i) - 1]
<1> DEFINE m == FirstKept(w)
           n == Len(w)
<1>1. n \in Nat /\ MaxHistory \in Nat \ {0}
  BY EditorAssumption, LenProperties
<1>2. m = IF n =< MaxHistory THEN 1 ELSE (n - MaxHistory) + 1
  <2>1. 1 \in Int /\ (n - MaxHistory) + 1 \in Int
    BY <1>1
  <2>2. m = IF 1 >= (n - MaxHistory) + 1 THEN 1 ELSE (n - MaxHistory) + 1
    BY <2>1, MaxOfTwo DEF FirstKept
  <2> HIDE DEF m, n
  <2> QED BY <1>1, <2>2
<1> HIDE DEF m
<1>3. m \in Nat \ {0} /\ m =< n + 1
  <2> HIDE DEF n
  <2> QED BY <1>1, <1>2
<1>4. /\ SubSeq(w, m, n) \in Seq(Lines) /\ Len(SubSeq(w, m, n)) = (n - m) + 1
      /\ \A i \in 1 .. ((n - m) + 1) : SubSeq(w, m, n)[i] = w[(m + i) - 1]
  <2>1. n =< Len(w)
    BY <1>1
  <2> QED BY <1>1, <1>3, <2>1, Slice
<1>5. Recent(w) = SubSeq(w, m, n)
  BY DEF Recent, m
<1> QED BY <1>2, <1>4, <1>5 DEF m

LEMMA RecentEmpty == Recent(<<>>) = <<>>
<1> DEFINE w == <<>>
<1>1. w \in Seq(Lines) /\ Len(w) = 0
  BY EmptySeq
<1> HIDE DEF w
<1>2. FirstKept(w) = 1
  <2>1. Len(w) =< MaxHistory
    BY <1>1, EditorAssumption
  <2>2. FirstKept(w) = IF Len(w) =< MaxHistory THEN 1 ELSE (Len(w) - MaxHistory) + 1
    BY <1>1, RecentIs, Zenon
  <2> QED BY <2>1, <2>2, Zenon
<1>3. Len(Recent(w)) = (0 - 1) + 1 /\ Recent(w) \in Seq(Lines)
  BY <1>1, <1>2, RecentIs
<1>4. Recent(w) = <<>>
  BY <1>3, EmptySeq
<1> QED BY <1>4 DEF w

LEMMA RememberedIsRecent ==
  ASSUME NEW w \in Seq(Lines), history = Recent(w), NEW l \in Lines
  PROVE  Remembered(l) = Recent(With(w, l))
<1> DEFINE n == Len(w)
           m == FirstKept(w)
           h == Len(history)
<1>1. n \in Nat /\ MaxHistory \in Nat \ {0}
  BY EditorAssumption, LenProperties
<1>2. /\ m = IF n =< MaxHistory THEN 1 ELSE (n - MaxHistory) + 1
      /\ history \in Seq(Lines) /\ h = (n - m) + 1
      /\ \A i \in 1 .. h : history[i] = w[(m + i) - 1]
  BY RecentIs
<1> HIDE DEF m
<1>3. /\ m \in Nat \ {0}
      /\ h = IF n =< MaxHistory THEN n ELSE MaxHistory
  BY <1>1, <1>2
<1>4. (history = <<>>) = (w = <<>>)
  <2>1. (history = <<>>) = (h = 0) /\ (w = <<>>) = (n = 0)
    BY <1>1, <1>2, EmptySeq
  <2> QED BY <1>1, <1>3, <2>1
<1>5. w # <<>> => Last(history) = Last(w)
  <2>1. ASSUME w # <<>> PROVE h \in 1 .. h /\ (m + h) - 1 = n
    <3>1. n # 0
      BY <2>1, EmptySeq
    <3> QED BY <1>1, <1>2, <1>3, <3>1
  <2>2. ASSUME w # <<>> PROVE history[h] = w[n]
    BY <1>2, <2>1, <2>2
  <2> QED BY <2>2 DEF Last
<1>6. CASE l = <<>> \/ (w # <<>> /\ Last(w) = l)
  <2>1. With(w, l) = w
    BY <1>6 DEF With
  <2>2. Remembered(l) = history
    BY <1>4, <1>5, <1>6 DEF Remembered
  <2> QED BY <2>1, <2>2
<1>7. CASE ~ (l = <<>> \/ (w # <<>> /\ Last(w) = l))
  <2> DEFINE v == Append(w, l)
             r == Recent(v)
             q == Remembered(l)
  <2>1. /\ With(w, l) = v
        /\ q = IF h < MaxHistory THEN Append(history, l) ELSE Append(Tail(history), l)
    BY <1>4, <1>5, <1>7 DEF With, Remembered
  <2>2. /\ v \in Seq(Lines) /\ Len(v) = n + 1 /\ v[n + 1] = l
        /\ \A i \in 1 .. n : v[i] = w[i]
    BY <1>1, AppendProperties
  <2>3. /\ FirstKept(v) = IF Len(v) =< MaxHistory THEN 1 ELSE (Len(v) - MaxHistory) + 1
        /\ r \in Seq(Lines) /\ Len(r) = (Len(v) - FirstKept(v)) + 1
        /\ \A i \in 1 .. Len(r) : r[i] = v[(FirstKept(v) + i) - 1]
    BY <2>2, RecentIs
  <2> HIDE DEF v, r, q
  <2>4. CASE h < MaxHistory
    <3>1. h = n /\ m = 1 /\ FirstKept(v) = 1 /\ Len(r) = n + 1
      BY <1>1, <1>2, <1>3, <2>2, <2>3, <2>4
    <3>2. /\ q \in Seq(Lines) /\ Len(q) = h + 1 /\ q[h + 1] = l
          /\ \A i \in 1 .. h : q[i] = history[i]
      BY <1>2, <2>1, <2>4, AppendProperties
    <3>3. \A i \in 1 .. Len(r) : q[i] = r[i]
      <4> TAKE i \in 1 .. Len(r)
      <4>1. (1 + i) - 1 = i /\ (i \in 1 .. n \/ i = n + 1)
        BY <1>1, <3>1
      <4>2. CASE i \in 1 .. n
        <5>1. q[i] = history[i] /\ history[i] = w[i]
          BY <1>2, <3>1, <3>2, <4>1, <4>2
        <5>2. r[i] = v[i] /\ v[i] = w[i]
          BY <2>2, <2>3, <3>1, <4>1, <4>2
        <5> QED BY <5>1, <5>2
      <4>3. CASE i = n + 1
        BY <2>2, <2>3, <3>1, <3>2, <4>1, <4>3
      <4> QED BY <4>1, <4>2, <4>3
    <3> QED BY <2>1, <2>3, <3>1, <3>2, <3>3, SeqEqual DEF r, q
  <2>5. CASE ~ (h < MaxHistory)
    <3>1. /\ h = MaxHistory /\ n >= MaxHistory /\ m = (n - MaxHistory) + 1
          /\ FirstKept(v) = m + 1 /\ Len(r) = h
      <4> HIDE DEF n, h
      <4>1. h = MaxHistory /\ n >= MaxHistory /\ m = (n - MaxHistory) + 1
        <5>1. m = IF n =< MaxHistory THEN 1 ELSE (n - MaxHistory) + 1
          BY <1>2
        <5> QED BY <1>1, <1>3, <2>5, <5>1
      <4>2. FirstKept(v) = ((n + 1) - MaxHistory) + 1
        BY <1>1, <2>2, <2>3, <4>1
      <4>3. Len(r) = ((n + 1) - FirstKept(v)) + 1
        BY <2>2, <2>3
      <4> QED BY <1>1, <4>1, <4>2, <4>3
    <3>2. /\ Tail(history) \in Seq(Lines) /\ Len(Tail(history)) = h - 1
          /\ \A i \in 1 .. (h - 1) : Tail(history)[i] = history[i + 1]
      <4>1. history # <<>>
        BY <1>1, <3>1, EmptySeq
      <4> QED BY <1>2, <4>1, HeadTailProperties
    <3>3. /\ q \in Seq(Lines) /\ Len(q) = (h - 1) + 1 /\ q[(h - 1) + 1] = l
          /\ \A i \in 1 .. (h - 1) : q[i] = Tail(history)[i]
      BY <2>1, <2>5, <3>2, AppendProperties
    <3>4. \A i \in 1 .. Len(r) : q[i] = r[i]
      <4> TAKE i \in 1 .. Len(r)
      <4>1. r[i] = v[((m + 1) + i) - 1]
        BY <2>3, <3>1
      <4>2. CASE i \in 1 .. (h - 1)
        <5>1. /\ i + 1 \in 1 .. h /\ ((m + 1) + i) - 1 = (m + (i + 1)) - 1
              /\ (m + (i + 1)) - 1 \in 1 .. n
          BY <1>1, <1>3, <3>1, <4>2
        <5>2. q[i] = w[(m + (i + 1)) - 1]
          BY <1>2, <3>2, <3>3, <4>2, <5>1
        <5> QED BY <2>2, <4>1, <5>1, <5>2
      <4>3. CASE i = h
        <5>1. ((m + 1) + i) - 1 = n + 1 /\ (h - 1) + 1 = h
          BY <1>1, <3>1, <4>3
        <5> QED BY <2>2, <3>3, <4>1, <4>3, <5>1
      <4> QED BY <1>1, <3>1, <4>2, <4>3
    <3>5. Len(q) = Len(r)
      BY <1>1, <3>1, <3>3
    <3>6. q = r
      BY <2>3, <3>3, <3>4, <3>5, SeqEqual
    <3> QED BY <2>1, <3>6 DEF r, q
  <2> QED BY <2>4, <2>5
<1> QED BY <1>6, <1>7

(* The history follows the lines that are entered. *)
HistoryFollows == history = Recent(Worth(entered))

LEMMA HistoryStays ==
  ASSUME Next, ~ (\E k : Enter(k))
  PROVE  UNCHANGED <<history, entered>>
<1>1. CASE Start \/ Eof \/ Done
  BY <1>1 DEF Start, Eof, Done, vars
<1>2. CASE AltEnter
  BY <1>2 DEF AltEnter, InsertNewline, Edited
<1>3. CASE Backspace \/ Delete
  BY <1>3 DEF Backspace, Delete, Moved, Edited
<1>4. CASE Tab
  BY <1>4 DEF Tab, Accept, Tabulate, Moved, Edited
<1>5. CASE Left \/ CtrlLeft \/ CtrlRight \/ ShiftUp \/ ShiftDown \/ Home \/ End
  BY <1>5 DEF Left, CtrlLeft, CtrlRight, ShiftUp, ShiftDown, Home, End, Moved
<1>6. CASE Right
  BY <1>6 DEF Right, Moved, Edited
<1>7. CASE CtrlC
  BY <1>7 DEF CtrlC, Edited
<1>8. CASE Up
  BY <1>8 DEF Up, Shows, Moved
<1>9. CASE Down
  BY <1>9 DEF Down, Shows, Moved
<1>10. ASSUME NEW c, Type(c) PROVE UNCHANGED <<history, entered>>
  BY <1>10 DEF Type, Edited
<1> QED BY <1>1, <1>2, <1>3, <1>4, <1>5, <1>6, <1>7, <1>8, <1>9, <1>10 DEF Next

LEMMA EnteredIs ==
  ASSUME EditorInv, NEW k, Enter(k)
  PROVE  \/ UNCHANGED <<history, entered>>
         \/ \E line \in Lines : history' = Remembered(line) /\ entered' = Append(entered, line)
<1>1. CASE Moved(pos) \/ InsertNewline
  BY <1>1 DEF Moved, InsertNewline, Edited
<1>2. CASE ~ Moved(pos) /\ ~ InsertNewline
  <2>1. history' = Remembered(Part(buf, 0, Trimmed)) /\ entered' = Append(entered, Part(buf, 0, Trimmed))
    BY <1>2 DEF Enter, Trimmed
  <2>2. Part(buf, 0, Trimmed) \in Lines
    BY KeyCounts, TrimmedIs DEF Enter
  <2> QED BY <2>1, <2>2
<1> QED BY <1>1, <1>2

(* The history is what it promises to be, for every length of it and every
   sequence of lines: the last lines worth keeping, in their order
   (add_to_cmd_history). *)
THEOREM HistoryIsKept == Spec => []HistoryKept
<1>1. Init => HistoryFollows
  <2> SUFFICES ASSUME Init PROVE HistoryFollows
    OBVIOUS
  <2>1. history = <<>> /\ entered = <<>>
    BY DEF Init
  <2>2. Worth(<<>>) = <<>>
    <3> DEFINE e == <<>>
    <3>1. e \in Seq(Lines) /\ Len(e) = 0
      BY EmptySeq
    <3> HIDE DEF e
    <3>2. PICK f : IsWorth(f, e) /\ Worth(e) = f[Len(e)]
      BY <3>1, WorthIs
    <3>3. Worth(e) = <<>>
      BY <3>1, <3>2 DEF IsWorth
    <3> QED BY <3>3 DEF e
  <2> QED BY <2>1, <2>2, RecentEmpty DEF HistoryFollows
<1>2. EditorInv /\ HistoryFollows /\ [Next]_vars => HistoryFollows'
  <2> SUFFICES ASSUME EditorInv, HistoryFollows, [Next]_vars PROVE HistoryFollows'
    OBVIOUS
  <2>1. CASE UNCHANGED <<history, entered>>
    <3>1. Worth(entered)' = Worth(entered)
      BY <2>1
    <3> QED BY <2>1, <3>1 DEF HistoryFollows, Recent, FirstKept
  <2>2. ASSUME NEW line \in Lines, history' = Remembered(line), entered' = Append(entered, line)
        PROVE  HistoryFollows'
    <3>1. entered \in Seq(Lines)
      BY DEF EditorInv, HistoryOK
    <3>2. Worth(entered) \in Seq(Lines) /\ Worth(Append(entered, line)) = With(Worth(entered), line)
      BY <3>1, WorthGrows
    <3>3. Remembered(line) = Recent(With(Worth(entered), line))
      BY <3>2, RememberedIsRecent DEF HistoryFollows
    <3>4. history' = Recent(Worth(entered'))
      BY <2>2, <3>2, <3>3
    <3> QED BY <3>4 DEF HistoryFollows
  <2>3. UNCHANGED <<history, entered>> \/
        \E line \in Lines : history' = Remembered(line) /\ entered' = Append(entered, line)
    <3>1. CASE UNCHANGED vars
      BY <3>1 DEF vars
    <3>2. CASE Next
      <4>1. CASE \E k : Enter(k)
        BY <4>1, EnteredIs
      <4>2. CASE ~ (\E k : Enter(k))
        BY <3>2, <4>2, HistoryStays
      <4> QED BY <4>1, <4>2
    <3> QED BY <3>1, <3>2
  <2> QED BY <2>1, <2>2, <2>3
<1>3. HistoryFollows => HistoryKept
  BY DEF HistoryFollows, HistoryKept, Recent, FirstKept
<1> QED BY <1>1, <1>2, <1>3, TextInBuffer, PTL DEF Spec
=============================================================================
