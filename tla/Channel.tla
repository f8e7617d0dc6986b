------------------------------- MODULE Channel -------------------------------
(***************************************************************************)
(* What a caller of TcpConnection::sendMessage may rely on: a FIFO channel *)
(* that transmits every accepted message once, whole, in the order of      *)
(* acceptance.  The channel may stop (the connection can break), but it    *)
(* never reorders, duplicates, drops or invents a message.                 *)
(***************************************************************************)
EXTENDS Sequences

CONSTANT Message

VARIABLES
  pending,  \* accepted by the sender, not yet transmitted
  wire      \* transmitted, not yet taken by the peer

vars == <<pending, wire>>

TypeOK ==
  /\ pending \in Seq(Message)
  /\ wire \in Seq(Message)

Init ==
  /\ pending = <<>>
  /\ wire = <<>>

Accept(m) ==
  /\ pending' = Append(pending, m)
  /\ UNCHANGED wire

Transmit ==
  /\ pending # <<>>
  /\ wire' = Append(wire, Head(pending))
  /\ pending' = Tail(pending)

Take ==
  /\ wire # <<>>
  /\ wire' = Tail(wire)
  /\ UNCHANGED pending

Next ==
  \/ \E m \in Message : Accept(m)
  \/ Transmit
  \/ Take

Spec == Init /\ [][Next]_vars
=============================================================================
