------------------------------- MODULE Connection -------------------------------
(***************************************************************************)
(* What a client expects of its connection to a node of the builder: two    *)
(* streams in order, each closed on its own; the peer reads the end of its  *)
(* stream only after everything that was sent.  The peer may disappear.     *)
(***************************************************************************)
EXTENDS Naturals

VARIABLES
    sent, delivered,    \* messages the client has sent, and the peer has got
    ended,              \* the peer has read the end of its stream
    produced, received, \* messages the peer has sent, and the client has got
    open,               \* which of the streams, "send" and "receive", the client has not closed
    peer                \* the peer is there

vars == <<sent, delivered, ended, produced, received, open, peer>>

Init ==
    /\ sent = 0 /\ delivered = 0 /\ ended = FALSE /\ produced = 0 /\ received = 0
    /\ open = {"send", "receive"} /\ peer \in BOOLEAN

Send ==
    /\ "send" \in open /\ sent' = sent + 1
    /\ UNCHANGED <<delivered, ended, produced, received, open, peer>>

Deliver ==
    /\ peer /\ delivered < sent /\ delivered' = delivered + 1
    /\ UNCHANGED <<sent, ended, produced, received, open, peer>>

End ==
    /\ peer /\ "send" \notin open /\ delivered = sent /\ ended' = TRUE
    /\ UNCHANGED <<sent, delivered, produced, received, open, peer>>

Produce ==
    /\ peer /\ produced' = produced + 1
    /\ UNCHANGED <<sent, delivered, ended, received, open, peer>>

Receive ==
    /\ "receive" \in open /\ received < produced /\ received' = received + 1
    /\ UNCHANGED <<sent, delivered, ended, produced, open, peer>>

Close(stream) ==
    /\ open' = open \ {stream}
    /\ UNCHANGED <<sent, delivered, ended, produced, received, peer>>

Disappear ==
    /\ peer' = FALSE
    /\ UNCHANGED <<sent, delivered, ended, produced, received, open>>

Next ==
    \/ Send \/ Deliver \/ End \/ Produce \/ Receive \/ Disappear
    \/ \E stream \in {"send", "receive"} : Close(stream)

Spec == Init /\ [][Next]_vars
=============================================================================
