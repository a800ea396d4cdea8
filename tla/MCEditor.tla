------------------------------ MODULE MCEditor ------------------------------
(***************************************************************************)
(* Sessions for Editor: a few keys at a time, chosen so that they get in   *)
(* each other's way.                                                       *)
(***************************************************************************)
EXTENDS Editor

Scope == <<[word |-> <<"a", "b", "x">>, dotted |-> TRUE,  members |-> <<<<"x", "k">>>>],
           [word |-> <<"a", "b">>,      dotted |-> FALSE, members |-> <<>>]>>
Reserved == <<<<"k", "x", "x">>>>
Blocks   == {<<"k">>}

Sessions ==
  {{"x", "a", "cr", "up", "down", "backspace"},
   {"x", "cr", "up", "down", "ctrl_c", "eof"},
   {"x", "cr", "up", "down", "alt_enter", "left"},
   {"a", "tab", "cr", "up", "down", "backspace"},
   {"a", "right", "left", ".", "tab", "delete"},
   {"k", "{", "cr", "}", "home", "end"},
   {"x", " ", "alt_enter", "}", "tab", "left"},
   {"x", "alt_enter", "shift_up", "shift_down", " ", "lf"},
   {"x", "=", " ", "ctrl_left", "ctrl_right", "("},
   {"quote", ")", "(", "+", "cr", "lf"}}

Memory == {NUL, "b"}
=============================================================================
