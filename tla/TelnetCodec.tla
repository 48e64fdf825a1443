----------------------------- MODULE TelnetCodec -----------------------------
(***************************************************************************)
(* The option codec of internal/protocol/telnet: Read takes the server's   *)
(* commands (IAC ...) out of its text, however the network cuts the bytes  *)
(* up, and refuses every option it is offered; Write escapes the user's    *)
(* input.  Read runs in the terminal's pump, Write in the UI goroutine.    *)
(* A byte is represented by what it means to the protocol (RFC 854).       *)
(***************************************************************************)
EXTENDS Naturals, Sequences, SequencesExt

CONSTANTS MaxItems,     \* bound on what the server sends
          MaxInputs,    \* bound on the calls of Write
          Room          \* len(p), the bytes one Read can return

ASSUME TelnetAssumption == Room \in Nat \ {0}

VARIABLES items,        \* what the server has sent, item by item
          inputs,       \* what has been written, call by call
          wire,         \* bytes under way from the server
          lost,         \* bytes of the server that will not arrive
          br,           \* s.br: bytes read from the stream and not looked at
          at,           \* where Read is
          command,      \* the command whose option comes next
          p,            \* the text this Read has found
          delivered,    \* the text earlier Reads have returned
          out,          \* bytes written to the stream
          hungUp, failed    \* the server has gone; a Read has returned an error

telnetVars == <<items, inputs, wire, lost, br, at, command, p, delivered, out, hungUp, failed>>

(* What a server sends, as bytes.  The contents of a subnegotiation may    *)
(* hold an escaped IAC, and SE as a byte like any other.                   *)
Encoded ==
  [text |-> <<"text">>, escaped |-> <<"IAC", "IAC">>, command |-> <<"IAC", "NOP">>,
   ask |-> <<"IAC", "DO", "opt">>, offer |-> <<"IAC", "WILL", "opt">>,
   refuse |-> <<"IAC", "WONT", "opt">>,
   sub |-> <<"IAC", "SB", "opt", "IAC", "IAC", "SE", "text", "IAC", "SE">>]

Inputs == {<<"text">>, <<"IAC">>, <<"IAC", "text">>}

TelnetInit ==
  /\ items = <<>> /\ inputs = <<>> /\ wire = <<>> /\ lost = <<>> /\ br = <<>>
  /\ at = "idle" /\ command = "none" /\ p = <<>> /\ delivered = <<>>
  /\ out = <<>> /\ hungUp = FALSE /\ failed = FALSE

-----------------------------------------------------------------------------
ServerSends ==
  /\ ~hungUp /\ Len(items) < MaxItems
  /\ \E item \in DOMAIN Encoded :
       items' = Append(items, item) /\ wire' = wire \o Encoded[item]
  /\ UNCHANGED <<inputs, lost, br, at, command, p, delivered, out, hungUp, failed>>

(* The connection ends, and with it any of the bytes that were under way:  *)
(* the last to arrive may be in the middle of an item.                     *)
ServerHangsUp ==
  /\ ~hungUp
  /\ hungUp' = TRUE
  /\ \E k \in 0..Len(wire) :
       wire' = SubSeq(wire, 1, k) /\ lost' = SubSeq(wire, k + 1, Len(wire))
  /\ UNCHANGED <<items, inputs, br, at, command, p, delivered, out, failed>>

Escaped(input) ==
  FlattenSeq([i \in 1..Len(input) |-> IF input[i] = "IAC" THEN <<"IAC", "IAC">> ELSE <<input[i]>>])

(* Write: one write on the stream, whatever has to be escaped.             *)
Write(input) ==
  /\ Len(inputs) < MaxInputs
  /\ inputs' = Append(inputs, input)
  /\ out' = out \o Escaped(input)
  /\ UNCHANGED <<items, wire, lost, br, at, command, p, delivered, hungUp, failed>>

-----------------------------------------------------------------------------
StartRead ==
  /\ at = "idle" /\ ~failed
  /\ at' = "data"
  /\ UNCHANGED <<items, inputs, wire, lost, br, command, p, delivered, out, hungUp, failed>>

(* ReadByte of an empty bufio.Reader: the stream returns some of the bytes *)
(* that have arrived.                                                      *)
Fill ==
  /\ at # "idle" /\ br = <<>> /\ wire # <<>>
  /\ \E k \in 1..Len(wire) :
       br' = SubSeq(wire, 1, k) /\ wire' = SubSeq(wire, k + 1, Len(wire))
  /\ UNCHANGED <<items, inputs, lost, at, command, p, delivered, out, hungUp, failed>>

Return(text) == at' = "idle" /\ delivered' = delivered \o text /\ p' = <<>>

(* The end of an iteration of Read's loop.                                 *)
EndOfTurn(text) ==
  IF Len(text) = Room \/ br' = <<>> THEN Return(text)
  ELSE at' = "data" /\ p' = text /\ UNCHANGED delivered

(* An error, of a read or of a reply: text already found is returned       *)
(* without it.                                                             *)
Fails ==
  IF p # <<>> THEN Return(p) /\ UNCHANGED failed
  ELSE failed' = TRUE /\ at' = "idle" /\ UNCHANGED <<delivered, p>>

(* ReadByte returns an error, wherever Read is.                            *)
ReadFails ==
  /\ at # "idle" /\ br = <<>> /\ wire = <<>> /\ hungUp
  /\ Fails
  /\ command' = "none"
  /\ UNCHANGED <<items, inputs, wire, lost, br, out, hungUp>>

NextByte(in) == at = in /\ br # <<>> /\ br' = Tail(br)

ReadData ==
  /\ NextByte("data")
  /\ IF Head(br) = "IAC" THEN at' = "command" /\ UNCHANGED <<p, delivered>>
     ELSE EndOfTurn(Append(p, Head(br)))
  /\ UNCHANGED <<items, inputs, wire, lost, command, out, hungUp, failed>>

HandleCommand ==
  /\ NextByte("command")
  /\ \/ Head(br) = "IAC" /\ EndOfTurn(Append(p, "IAC")) /\ UNCHANGED command
     \/ /\ Head(br) \in {"WILL", "WONT", "DO", "DONT"}
        /\ at' = "option" /\ command' = Head(br) /\ UNCHANGED <<p, delivered>>
     \/ Head(br) = "SB" /\ at' = "sub" /\ UNCHANGED <<p, delivered, command>>
     \/ /\ Head(br) \notin {"IAC", "WILL", "WONT", "DO", "DONT", "SB"}
        /\ EndOfTurn(p) /\ UNCHANGED command
  /\ UNCHANGED <<items, inputs, wire, lost, out, hungUp, failed>>

(* MUTANT: the two refusals trade places.                                  *)
ReplySwapped(cmd) == IF cmd = "DO" THEN "DONT" ELSE IF cmd = "WILL" THEN "WONT" ELSE "none"

Reply(cmd) == IF cmd = "DO" THEN "WONT" ELSE IF cmd = "WILL" THEN "DONT" ELSE "none"

(* The reply may fail once the server has gone.                            *)
RespondNegotiation ==
  /\ NextByte("option")
  /\ \/ /\ out' = IF Reply(command) = "none" THEN out
                  ELSE out \o <<"IAC", Reply(command), Head(br)>>
        /\ EndOfTurn(p)
        /\ UNCHANGED failed
     \/ hungUp /\ Reply(command) # "none" /\ Fails /\ UNCHANGED out
  /\ command' = "none"
  /\ UNCHANGED <<items, inputs, wire, lost, hungUp>>

(* MUTANT: the byte after an IAC may be the IAC of the end.                *)
SkipSubnegotiationUnpaired ==
  /\ at \in {"sub", "subIAC"} /\ NextByte(at)
  /\ IF at = "subIAC" /\ Head(br) = "SE" THEN EndOfTurn(p)
     ELSE at' = (IF Head(br) = "IAC" THEN "subIAC" ELSE "sub") /\ UNCHANGED <<p, delivered>>
  /\ UNCHANGED <<items, inputs, wire, lost, command, out, hungUp, failed>>

(* Up to IAC SE; the byte after any other IAC is skipped with it.          *)
SkipSubnegotiation ==
  /\ at \in {"sub", "subIAC"} /\ NextByte(at)
  /\ IF at = "subIAC" /\ Head(br) = "SE" THEN EndOfTurn(p)
     ELSE /\ at' = IF at = "sub" /\ Head(br) = "IAC" THEN "subIAC" ELSE "sub"
          /\ UNCHANGED <<p, delivered>>
  /\ UNCHANGED <<items, inputs, wire, lost, command, out, hungUp, failed>>

TelnetNext ==
  \/ ServerSends \/ ServerHangsUp
  \/ \E input \in Inputs : Write(input)
  \/ StartRead \/ Fill \/ ReadFails
  \/ ReadData \/ HandleCommand \/ RespondNegotiation \/ SkipSubnegotiation

TelnetSpec == TelnetInit /\ [][TelnetNext]_telnetVars

-----------------------------------------------------------------------------
TextOf(item) ==
  IF item = "text" THEN <<"text">> ELSE IF item = "escaped" THEN <<"IAC">> ELSE <<>>
AnswerTo(item) ==
  IF item = "ask" THEN <<"WONT">> ELSE IF item = "offer" THEN <<"DONT">> ELSE <<>>

Each(Of(_), s) == FlattenSeq([i \in 1..Len(s) |-> Of(s[i])])

AllRead == wire = <<>> /\ br = <<>> /\ at \in {"idle", "data"}

(* The first n items have arrived whole, and no others: what is lost       *)
(* begins in the item after them.                                          *)
Arrived(n) ==
  LET from(m) == Len(Each(LAMBDA item : Encoded[item], SubSeq(items, m, Len(items))))
  IN  Len(lost) <= from(n + 1) /\ (n < Len(items) => from(n + 2) < Len(lost))

(* The pump gets the server's text, item by item, no command or            *)
(* subnegotiation in it and nothing missing, wherever the network splits   *)
(* the bytes.  Once there is nothing left to read it has the text of every *)
(* item that arrived whole, and none of one the server's end cut off: a    *)
(* Read that fails inside a command returns the text before it             *)
(* (telnet.go:132-140, 158-171 and 204-216).                               *)
DeliversText ==
  \E n \in 0..Len(items) :
    /\ delivered \o p = Each(TextOf, SubSeq(items, 1, n))
    /\ AllRead => Arrived(n)

(* What the server makes of the client's bytes: the text, the options      *)
(* refused, and any byte it cannot make sense of.                          *)
ServerView ==
  FoldLeft(LAMBDA seen, b :
             IF seen.after = <<>> THEN IF b = "IAC" THEN [seen EXCEPT !.after = <<b>>]
                                       ELSE [seen EXCEPT !.text = Append(@, b)]
             ELSE IF Len(seen.after) = 2
                  THEN [seen EXCEPT !.after = <<>>, !.refused = Append(@, seen.after[2])]
             ELSE IF b = "IAC" THEN [seen EXCEPT !.after = <<>>, !.text = Append(@, b)]
             ELSE [seen EXCEPT !.after = Append(@, b)],
           [after |-> <<>>, text |-> <<>>, refused |-> <<>>], out)

(* The server gets the user's input, byte for byte, and one refusal of     *)
(* every option it has asked for or offered, in order, although the two    *)
(* are written by different goroutines.                                    *)
ServerUnderstands ==
  LET answers == Each(AnswerTo, items)
  IN  /\ ServerView.after = <<>>
      /\ ServerView.text = FlattenSeq(inputs)
      /\ IsPrefix(ServerView.refused, answers) \/ hungUp
      /\ AllRead /\ ~hungUp => ServerView.refused = answers
=============================================================================
