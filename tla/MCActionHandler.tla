------------------------- MODULE MCActionHandler -------------------------
(* ActionHandler with two buttons that share a modifier.                 *)
EXTENDS ActionHandler, TLC

Chord(keys) == [keys |-> keys, relative |-> FALSE, command |-> FALSE]
Scroll == [keys |-> << >>, relative |-> TRUE, command |-> FALSE]
Command == [keys |-> << >>, relative |-> FALSE, command |-> TRUE]

\* Two chords with a modifier in common, and no gestures ...
Chording ==
  [button    |-> 1 :> Chord(<<"ctrl", "c">>) @@ 2 :> Chord(<<"ctrl">>),
   gesture   |-> << >>,
   threshold |-> 1]

\* ... and the key on a gesture, with a scroll action and commands.
Gesturing ==
  [button    |-> 1 :> Scroll @@ 2 :> Command,
   gesture   |-> "left" :> Chord(<<"ctrl">>) @@ "down" :> Command,
   threshold |-> 1]

MCButton == <<1, 2>>
MCSettings == {Chording, Gesturing}
MCMotion == {<<0, 0>>, <<-1, 0>>, <<0, 1>>}
=============================================================================
