--------------------------- MODULE WsConnections ---------------------------
(***************************************************************************)
(* The certified WebSocket message log of ic-kit-ws (connections.rs).      *)
(*                                                                         *)
(* WsConnections::connections is a VecDeque of (BlockId, Map<connection,   *)
(* Seq<message>>) entries, index 1 being the front.  send_raw makes sure  *)
(* an entry for the current block exists, appends each message of its     *)
(* batch to the entry at the back, and recomputes the root hash;          *)
(* close_connections removes connections from every entry.  Each          *)
(* operation is one update call of a single-threaded canister, so each is *)
(* one atomic step; ic::time() only moves between calls.                  *)
(*                                                                         *)
(* A connection id is a u64 (ConnectionIdInternal); a message is the pair  *)
(* <<connection, j>> for the j-th message sent to that connection, which   *)
(* makes every payload distinct.  Only the per-connection order of a      *)
(* batch matters to the state (the loop appends each message to its own    *)
(* connection's Seq), so a batch is given by how many messages it holds   *)
(* for each connection.                                                    *)
(***************************************************************************)
EXTENDS Naturals, Sequences

CONSTANTS
    Conns,          \* connection ids in use
    MaxBlockHeight, \* MAX_BLOCK_HEIGHT (connections.rs:8)
    MaxMsgs,        \* bound on the messages sent to one connection
    MaxBatch,       \* bound on the messages of one batch for one connection
    TimePoints      \* values ic::time() (nanoseconds) takes over a run

ASSUME WsAssumption ==
    /\ Conns \subseteq Nat
    /\ MaxBlockHeight \in Nat \ {0}
    /\ MaxMsgs \in Nat /\ MaxBatch \in Nat
    /\ TimePoints \subseteq Nat /\ TimePoints # {}

Msg == Conns \X Nat

Tree == [Conns -> Seq(Msg)]

Block == [id : Nat, tree : Tree]

VARIABLES
    connections, \* WsConnections::connections, front first
    certified,   \* WsConnections::hash, also passed to set_certified_data
    now,         \* ic::time()
    sentIn,      \* history: block id each message of a connection was sent in
    closed,      \* history: messages of a connection sent before its last close
    blocks       \* history: the distinct block ids send_raw ran in, in order

vars == <<connections, certified, now, sentIn, closed, blocks>>

(* BLOCK_PERIOD_SECONDS (connections.rs:94). *)
BlockPeriod == 3

(* get_current_block_id (connections.rs:90-97): time() / 1_000_000, then  *)
(* rounded down to a multiple of BLOCK_PERIOD_SECONDS.                    *)
GetCurrentBlockId ==
    ((now \div 1000000) \div BlockPeriod) * BlockPeriod

(* recompute_hash (connections.rs:39-50): the SHA-256 of the block ids and *)
(* tree root hashes in deque order.  Hashes are taken as collision-free,  *)
(* so the digest is represented by the sequence it is computed from.      *)
RootHash(cs) == [i \in 1..Len(cs) |-> <<cs[i].id, cs[i].tree>>]

EmptyTree == [c \in Conns |-> << >>]

NewBlock(b) == [id |-> b, tree |-> EmptyTree]

(* The messages a batch holds for connection c, numbered after the ones   *)
(* already sent to c.                                                     *)
NewMsgs(c, k) == [j \in 1..k |-> <<c, Len(sentIn[c]) + j>>]

(* Seeded faults in the block bookkeeping of send_raw.                     *)
(* The new entry pushed at the back instead of the front.                 *)
EnsureBlockPushBack(cs, b) ==
    LET L == Len(cs) IN
    IF L = 0 \/ cs[L].id # b
    THEN Append(IF L = MaxBlockHeight THEN SubSeq(cs, 1, L - 1) ELSE cs,
                NewBlock(b))
    ELSE cs

(* The capacity test written `connections_len > MAX_BLOCK_HEIGHT`.          *)
EnsureBlockNoCap(cs, b) ==
    LET L == Len(cs) IN
    IF L = 0 \/ cs[L].id # b
    THEN << NewBlock(b) >> \o (IF L > MaxBlockHeight THEN SubSeq(cs, 1, L - 1)
                               ELSE cs)
    ELSE cs

(* "ensure that the last connection in the list is for the current        *)
(* block_id" (connections.rs:53-64): unless the back entry is for block b, *)
(* pop_back when the deque is full, then push_front a new entry.          *)
EnsureBlock(cs, b) ==
    LET L == Len(cs) IN
    IF L = 0 \/ cs[L].id # b
    THEN << NewBlock(b) >> \o (IF L = MaxBlockHeight THEN SubSeq(cs, 1, L - 1)
                               ELSE cs)
    ELSE cs

(* The loop putting each message in front of the connection's earlier   *)
(* ones (push_front where push_back was meant).                           *)
AppendToBackFront(cs, n) ==
    [cs EXCEPT ![Len(cs)].tree = [c \in Conns |-> NewMsgs(c, n[c]) \o @[c]]]

(* The loop of send_raw (connections.rs:66-72): every message goes to     *)
(* entry(connection).or_default().append(message) of the back entry.      *)
AppendToBack(cs, n) ==
    [cs EXCEPT ![Len(cs)].tree = [c \in Conns |-> @[c] \o NewMsgs(c, n[c])]]

-----------------------------------------------------------------------------
(* WsConnections::new (connections.rs:29-36). *)
Init ==
    /\ connections = << >>
    /\ certified = RootHash(<< >>)
    /\ now \in TimePoints
    /\ sentIn = [c \in Conns |-> << >>]
    /\ closed = [c \in Conns |-> 0]
    /\ blocks = << >>

(* send_raw (connections.rs:53-75) with n[c] messages for connection c.    *)
SendRaw(n) ==
    /\ \A c \in Conns : Len(sentIn[c]) + n[c] <= MaxMsgs
    /\ LET b == GetCurrentBlockId IN
       /\ connections' = AppendToBack(EnsureBlock(connections, b), n)
       /\ sentIn' = [c \in Conns |-> sentIn[c] \o [j \in 1..n[c] |-> b]]
       /\ blocks' = IF blocks # << >> /\ blocks[Len(blocks)] = b
                    THEN blocks ELSE Append(blocks, b)
    /\ certified' = RootHash(connections')
    /\ UNCHANGED <<now, closed>>

(* close_connections (connections.rs:78-86): remove every connection of cs *)
(* from the tree of every entry, then recompute the hash.  As written the *)
(* loop moves self.connections and the iterator out of a &mut borrow and  *)
(* does not compile; this is the removal the loop spells out.             *)
CloseConnections(cs) ==
    /\ connections' =
          [i \in 1..Len(connections) |->
              [connections[i] EXCEPT !.tree =
                  [c \in Conns |-> IF c \in cs THEN << >> ELSE @[c]]]]
    /\ certified' = RootHash(connections')
    /\ closed' = [c \in Conns |-> IF c \in cs THEN Len(sentIn[c]) ELSE closed[c]]
    /\ UNCHANGED <<now, sentIn, blocks>>

(* Time passes between update calls. *)
Tick ==
    /\ \E t \in TimePoints : t > now /\ now' = t
    /\ UNCHANGED <<connections, certified, sentIn, closed, blocks>>

Next ==
    \/ \E n \in [Conns -> 0..MaxBatch] : SendRaw(n)
    \/ \E cs \in SUBSET Conns : cs # {} /\ CloseConnections(cs)
    \/ Tick

Spec == Init /\ [][Next]_vars

-----------------------------------------------------------------------------
TypeOK ==
    /\ connections \in Seq(Block)
    /\ certified \in Seq(Nat \X Tree)
    /\ now \in TimePoints
    /\ sentIn \in [Conns -> Seq(Nat)]
    /\ closed \in [Conns -> Nat]
    /\ blocks \in Seq(Nat)

(* The deque never holds more than MAX_BLOCK_HEIGHT entries: send_raw pops *)
(* one before it pushes when the deque is full (connections.rs:59-61), so  *)
(* memory stays bounded however many blocks and calls go by.              *)
BoundedBlocks == Len(connections) <= MaxBlockHeight

(* A message of connection c is still in some entry of the deque. *)
Stored(m) ==
    \E i \in 1..Len(connections) :
        \E k \in 1..Len(connections[i].tree[m[1]]) :
            connections[i].tree[m[1]][k] = m

(* The last MAX_BLOCK_HEIGHT blocks in which messages were sent. *)
RecentBlocks ==
    {blocks[i] : i \in {k \in 1..Len(blocks) : k + MaxBlockHeight > Len(blocks)}}

(* The comment on MAX_BLOCK_HEIGHT (connections.rs:7) and spec section 6:  *)
(* the log retains the most recent blocks; a message sent in one of the    *)
(* last MAX_BLOCK_HEIGHT blocks, to a connection not closed since, is      *)
(* still in the log.                                                       *)
RecentMessagesKept ==
    \A c \in Conns : \A j \in (closed[c] + 1)..Len(sentIn[c]) :
        sentIn[c][j] \in RecentBlocks => Stored(<<c, j>>)

(* get_current_block_id (connections.rs:94-96) names time() / 1_000_000  *)
(* `time_seconds` and rounds it to BLOCK_PERIOD_SECONDS: a block id is a  *)
(* time in seconds, so it never exceeds the seconds ic::time() counts.    *)
BlockIdsInSeconds ==
    \A i \in 1..Len(blocks) : blocks[i] <= now \div 1000000000
=============================================================================
