---------------------------- MODULE RequestReply ----------------------------
(***************************************************************************)
(* What the relay promises to whoever asks a Foundry module for something: *)
(* a call is told one thing, once, and if that is an answer then it is the *)
(* answer to a call that the module was sent and that shared the name of   *)
(* this one.  PendingRequests implements it.                               *)
(***************************************************************************)
CONSTANTS
    Callers,    \* calls
    Ticks,      \* instants at which a call can start
    Shares(_, _),  \* two calls that share a name if they start at one instant
    Answers(_),    \* the answer to a call
    Verdicts,   \* what a call can be told without an answer
    None

VARIABLES
    start,  \* per call: the instant it started
    open,   \* calls that wait
    sent,   \* calls the module was sent
    told    \* per call: what it was told, or None

vars == <<start, open, sent, told>>

Init ==
    /\ start \in [Callers -> Ticks]
    /\ open = {}
    /\ sent = {}
    /\ told = [c \in Callers |-> None]

Open(c, t) ==
    /\ c \notin open /\ told[c] = None
    /\ start' = [start EXCEPT ![c] = t]
    /\ open' = open \cup {c}
    /\ UNCHANGED <<sent, told>>

Send(c) ==
    /\ c \in open
    /\ sent' = sent \cup {c}
    /\ UNCHANGED <<start, open, told>>

End(c, o) ==
    /\ told[c] = None
    /\ open' = open \ {c}
    /\ told' = [told EXCEPT ![c] = o]
    /\ UNCHANGED <<start, sent>>

Refuse(c) == \E o \in Verdicts : End(c, o)

Reply(c) ==
    /\ c \in open
    /\ \E d \in sent :
         /\ d = c \/ (Shares(c, d) /\ start[c] = start[d])
         /\ End(c, Answers(d))

Next ==
    \E c \in Callers : (\E t \in Ticks : Open(c, t)) \/ Send(c) \/ Refuse(c) \/ Reply(c)

Spec == Init /\ [][Next]_vars
=============================================================================
