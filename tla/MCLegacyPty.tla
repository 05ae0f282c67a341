----------------------------- MODULE MCLegacyPty ----------------------------
(* Values for TLC: buffers of a few bytes, so that keys overflow and every  *)
(* item is cut at every place, a sequence that just fits the buffer and one *)
(* that does not, and a byte of no character.                               *)
EXTENDS LegacyPty

MCKeys == {<<"x">>, <<"ESC", "[", "A">>}
MCItems ==
  {<<"L2", "cont">>, <<"L3", "cont", "cont">>, <<"ESC", "(", "x">>,
   <<"ESC", "#", "x">>, <<"ESC", "x">>, <<"NUL">>, <<"cont">>, <<"ESC", "[", "l">>,
   <<"ESC", "[", "digit", "digit", "h">>,
   <<"ESC", "[", "digit", "digit", "digit", "l">>}
=============================================================================
