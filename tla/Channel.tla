------------------------------- MODULE Channel -------------------------------
(***************************************************************************)
(* What a message server's queue promises to the code around it, without    *)
(* threads, waiting or closing: a bounded first-in first-out buffer.  A     *)
(* message enters at the back, or takes the place of one message that has   *)
(* its key; it leaves at the front, once; the whole buffer may be           *)
(* discarded.                                                               *)
(***************************************************************************)
EXTENDS Naturals, Sequences

CONSTANTS Msg, NoKey, Bound   \* messages are records with a field key

VARIABLES buf, out      \* waiting messages; messages delivered, in order

chanVars == <<buf, out>>

Init == buf = <<>> /\ out = <<>>

Put ==
  /\ Len(buf) < Bound
  /\ \E m \in Msg : buf' = Append(buf, m)
  /\ UNCHANGED out

Overwrite ==
  /\ \E i \in 1..Len(buf) : \E m \in Msg :
       /\ m.key # NoKey /\ m.key = buf[i].key
       /\ buf' = [buf EXCEPT ![i] = m]
  /\ UNCHANGED out

Take ==
  /\ buf # <<>>
  /\ out' = Append(out, Head(buf))
  /\ buf' = Tail(buf)

Discard == buf' = <<>> /\ UNCHANGED out

Next == Put \/ Overwrite \/ Take \/ Discard

Spec == Init /\ [][Next]_chanVars

=============================================================================
