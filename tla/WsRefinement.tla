--------------------------- MODULE WsRefinement ---------------------------
(***************************************************************************)
(* The refinement mapping from the deque of WsConnections to the abstract *)
(* log of WsLog.  send_raw appends only to the back entry and pushes new  *)
(* entries, empty, at the front; so every entry but the back one is       *)
(* empty (OnlyBackHoldsMessages) and what the deque holds for a            *)
(* connection is what its back entry holds.                               *)
(***************************************************************************)
EXTENDS WsConnections

(* The entry send_raw appends to. *)
Back == connections[Len(connections)]

(* The messages the deque holds for connection c, oldest first. *)
Log == [c \in Conns |-> IF connections = << >> THEN << >> ELSE Back.tree[c]]

(* The messages ever sent: the j-th message of connection c for every j up *)
(* to the number sent to c.                                                *)
Sent == UNION {{<<c, j>> : j \in 1..Len(sentIn[c])} : c \in Conns}

Abs == INSTANCE WsLog WITH Msgs <- Conns \X (1..MaxMsgs), log <- Log, sent <- Sent

(* send_raw appends a batch to the back entry (connections.rs:66-72) and  *)
(* push_front inserts empty entries (connections.rs:62): no entry before  *)
(* the back one ever holds a message.                                     *)
OnlyBackHoldsMessages ==
    \A i \in 1..Len(connections) - 1 : connections[i].tree = EmptyTree

(* send_raw and close_connections implement the abstract log: per          *)
(* connection messages stay in send order, are never duplicated, and are  *)
(* forgotten only from the oldest end.                                    *)
WsLogRefined == Abs!Spec
=============================================================================
