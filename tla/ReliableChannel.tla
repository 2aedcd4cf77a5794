--------------------------- MODULE ReliableChannel ---------------------------
(***************************************************************************)
(* What a reliable session promises its two peers: two independent FIFO    *)
(* streams that neither lose, repeat nor reorder a message while the       *)
(* channel is open.  ReliableSession implements it.                        *)
(***************************************************************************)
EXTENDS Integers, Sequences

CONSTANT Message            \* what the server may send

VARIABLES
    sentUp,                 \* how many messages the client has sent
    takenUp,                \* the ones the server has taken, by number
    sentDown,               \* the messages the server has sent
    takenDown,              \* the ones the client's listeners were given
    open                    \* whether the client still uses the channel

channelVars == <<sentUp, takenUp, sentDown, takenDown, open>>

ChannelInit ==
    /\ sentUp = 0 /\ takenUp = << >>
    /\ sentDown = << >> /\ takenDown = << >>
    /\ open = TRUE

SendUp ==
    /\ open
    /\ sentUp' = sentUp + 1
    /\ UNCHANGED <<takenUp, sentDown, takenDown, open>>

TakeUp ==
    /\ Len(takenUp) < sentUp
    /\ takenUp' = Append(takenUp, Len(takenUp) + 1)
    /\ UNCHANGED <<sentUp, sentDown, takenDown, open>>

SendDown ==
    /\ sentDown' \in Seq(Message)
    /\ Len(sentDown') >= Len(sentDown)
    /\ SubSeq(sentDown', 1, Len(sentDown)) = sentDown
    /\ UNCHANGED <<sentUp, takenUp, takenDown, open>>

TakeDown ==
    /\ open /\ Len(takenDown) < Len(sentDown)
    /\ takenDown' = Append(takenDown, sentDown[Len(takenDown) + 1])
    /\ UNCHANGED <<sentUp, takenUp, sentDown, open>>

End ==
    /\ open /\ open' = FALSE
    /\ UNCHANGED <<sentUp, takenUp, sentDown, takenDown>>

ChannelNext == SendUp \/ TakeUp \/ SendDown \/ TakeDown \/ End

ChannelSpec == ChannelInit /\ [][ChannelNext]_channelVars
=============================================================================
