-------------------------- MODULE MCSubscriptions --------------------------
(***************************************************************************)
(* A small world for Subscriptions: three streams (one filtered) and two   *)
(* sockets, on the lenient channel "chat-events" and the strict "hooks".   *)
(* The loads: a module that comes and goes; a full list under a fan-out; a *)
(* filtered stream; two sockets of different channels in one list.         *)
(***************************************************************************)
EXTENDS Subscriptions, TLC

CONSTANTS s1, s2, s3, f1, k1, k2

MCChannels == {"chat-events", "hooks"}
MCChannelOf == [s \in {s1, s2, s3, f1, k1, k2} |->
                   IF s = k2 THEN "hooks" ELSE "chat-events"]
MCFilterOf == [s \in {s1, s2, s3, f1, k1, k2} |-> IF s = s2 THEN "speaker" ELSE "any"]
ChatEvent(t) == [ch |-> "chat-events", tag |-> t]
MCEvents == {ChatEvent("other"), ChatEvent("any")}

AlikeStreams == Permutations({s1, s3})

MCLoads ==
    {[subs |-> {s1, k1}, events |-> {}, connects |-> 2, faults |-> 1],
     [subs |-> {s1, s2, s3}, events |-> {ChatEvent("any")}, connects |-> 1, faults |-> 0],
     [subs |-> {s2, f1}, events |-> {ChatEvent("other")}, connects |-> 1, faults |-> 0],
     [subs |-> {k1, k2}, events |-> MCEvents, connects |-> 1, faults |-> 0]}

\* No message is lost and the module connects once: only the order is open.
TwoStreams ==
    {[subs |-> {s1, s3}, events |-> {}, connects |-> 1, faults |-> 0]}
=============================================================================
