----------------------------- MODULE MCTerminal -----------------------------
(* The two decoders a telnet server's bytes pass, each on its own: the      *)
(* codec of the session and the interpreter of the terminal.                *)
(* Two lines of three cells, tab stops every two columns, sequences of up   *)
(* to three digits and separators before the command; two items of the      *)
(* server, one input of the user, Reads that return at most two bytes.      *)
EXTENDS Terminal, TelnetCodec

CONSTANTS s1, s2, s3

VARIABLE decoder

MCSlices == {s1, s2, s3}
MCDigits == 0..3

MCInit == Init /\ TelnetInit /\ decoder \in {"interpreter", "codec"}

MCNext ==
  /\ UNCHANGED decoder
  /\ \/ decoder = "interpreter" /\ Next /\ UNCHANGED telnetVars
     \/ decoder = "codec" /\ TelnetNext /\ UNCHANGED vars
     \/ failed /\ UNCHANGED <<vars, telnetVars>>   \* the session is over

MCSpec == MCInit /\ [][MCNext]_<<decoder, vars, telnetVars>>

Interchangeable == Permutations(MCSlices)
=============================================================================
