------------------------------- MODULE WsLog -------------------------------
(***************************************************************************)
(* What the certified connection log promises its readers, per            *)
(* connection: messages are kept in the order they were sent, never        *)
(* duplicated or invented; old ones may be forgotten (the log keeps a     *)
(* sliding window), but only from the oldest end; closing a connection    *)
(* empties its log.                                                       *)
(***************************************************************************)
EXTENDS Naturals, Sequences

CONSTANTS Conns, Msgs

VARIABLES
    log,  \* connection -> the messages the log holds for it, oldest first
    sent  \* the messages ever sent

(* s is an initial segment of t. *)
Prefix(s, t) == Len(s) <= Len(t) /\ SubSeq(t, 1, Len(s)) = s

TypeOK == log \in [Conns -> Seq(Msgs)] /\ sent \subseteq Msgs

(* No message is held twice, in one connection or across two. *)
Unique(l) ==
    \A c, d \in Conns : \A i \in 1..Len(l[c]), j \in 1..Len(l[d]) :
        l[c][i] = l[d][j] => c = d /\ i = j

Init == log = [c \in Conns |-> << >>] /\ sent = {}

(* A batch is sent: every log keeps a suffix of what it held and gains    *)
(* messages never sent before at its end, among them every message of the *)
(* batch addressed to it (a message m is addressed to connection m[1]).   *)
Send ==
    /\ sent \subseteq sent' /\ sent' \subseteq Msgs
    /\ log' \in [Conns -> Seq(Msgs)]
    /\ \A c \in Conns : \E k \in 0..Len(log[c]) :
          LET kept == SubSeq(log[c], k + 1, Len(log[c])) IN
          /\ Prefix(kept, log'[c])
          /\ \A i \in (Len(kept) + 1)..Len(log'[c]) : log'[c][i] \in sent' \ sent
    /\ \A m \in sent' \ sent : \E i \in 1..Len(log'[m[1]]) : log'[m[1]][i] = m
    /\ Unique(log')

Close(cs) ==
    /\ log' = [c \in Conns |-> IF c \in cs THEN << >> ELSE log[c]]
    /\ UNCHANGED sent

Next == Send \/ \E cs \in SUBSET Conns : Close(cs)

Spec == Init /\ [][Next]_<<log, sent>>
=============================================================================
