----------------------------- MODULE MCKeyboard -----------------------------
(* Two keyboards on a small ring, so that it wraps and overflows within a    *)
(* few keys.                                                                 *)
EXTENDS Keyboard

\* Left shift, cursor up, print screen and pause: every form a code has, of
\* one to eight bytes.  In a ring of 10 print screen's code can start at the
\* last index, where keyboardhandler.c:158 reads behind the array.
EveryForm == {<<"12">>, <<"F0", "12">>, <<"E0", "75">>, <<"E0", "F0", "75">>,
              <<"E0", "12", "E0", "7C">>,
              <<"E0", "F0", "7C", "E0", "F0", "12">>,
              <<"E1", "14", "77", "E1", "F0", "14", "F0", "77">>}

\* Left shift, and cursor up pressed and released, byte by byte.
ExtendedCodes == {<<"12">>, <<"E0", "75">>, <<"E0", "F0", "75">>}

MCKeyboards == {[codes |-> EveryForm, most |-> 3, burst |-> TRUE],
                [codes |-> ExtendedCodes, most |-> 2, burst |-> FALSE]}
=============================================================================
