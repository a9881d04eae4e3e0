------------------------ MODULE WsRefinementProofs ------------------------
(***************************************************************************)
(* Proof that the deque of WsConnections implements the abstract log of   *)
(* WsLog under the mapping of WsRefinement, for every MAX_BLOCK_HEIGHT,  *)
(* set of connections and bound on messages.                              *)
(*                                                                         *)
(* The mapping reads a connection's log from the back entry only, which   *)
(* is right because no other entry ever holds a message                   *)
(* (OnlyBackHoldsMessages).  The abstract log demands that new messages   *)
(* are fresh and that no message is held twice; both follow from the back *)
(* entry holding, for every connection, the last K messages sent to it,   *)
(* numbered consecutively (LogHoldsLatest).                               *)
(***************************************************************************)
EXTENDS WsConnectionsProofs

(* The last K of the N messages sent to connection c, oldest first.       *)
Latest(c, N, K) == [i \in 1..K |-> <<c, N - K + i>>]

(* The m messages sent to connection c after its first N.                *)
Fresh(c, N, m) == [j \in 1..m |-> <<c, N + j>>]

(* No entry before the back one of deque cs holds a message.              *)
EmptyBefore(cs) == \A i \in 1..Len(cs) - 1 : cs[i].tree = EmptyTree

(* What the mapping reads from deque cs: the trees of its back entry.     *)
LogOf(cs) == [c \in Conns |-> IF cs = << >> THEN << >> ELSE cs[Len(cs)].tree[c]]

(* The messages sent according to the history si. *)
SentOf(si) == UNION {{<<c, j>> : j \in 1..Len(si[c])} : c \in Conns}

LogHoldsLatest ==
    \A c \in Conns : \E K \in 0..Len(sentIn[c]) :
        Log[c] = Latest(c, Len(sentIn[c]), K)

SentBounded == \A c \in Conns : Len(sentIn[c]) <= MaxMsgs

RInv == IInv /\ OnlyBackHoldsMessages /\ LogHoldsLatest /\ SentBounded

AbsMsgs == Conns \X (1..MaxMsgs)

-----------------------------------------------------------------------------
(* Latest(c, N, K) is a sequence of K messages of the abstract log.       *)
LEMMA LatestType ==
    ASSUME NEW c \in Conns, NEW N \in 0..MaxMsgs, NEW K \in 0..N
    PROVE  Latest(c, N, K) \in Seq(AbsMsgs) /\ Len(Latest(c, N, K)) = K
<1>1. Latest(c, N, K) \in [1..K -> AbsMsgs]
    BY WsAssumption DEF Latest, AbsMsgs
<1> QED
    BY <1>1, FunIsSeq, WsAssumption

(* Nothing is the last 0 messages.                                         *)
LEMMA LatestEmpty ==
    ASSUME NEW c, NEW N
    PROVE  Latest(c, N, 0) = << >>
BY DEF Latest

(* Appending the next m messages to the last K of N gives the last K + m  *)
(* of N + m.                                                               *)
LEMMA LatestExtend ==
    ASSUME NEW c, NEW N \in Nat, NEW K \in 0..N, NEW m \in Nat
    PROVE  Latest(c, N, K) \o Fresh(c, N, m) = Latest(c, N + m, K + m)
<1> DEFINE S == {c} \X Nat
           s == Latest(c, N, K)
           t == Fresh(c, N, m)
<1>1. s \in Seq(S) /\ Len(s) = K
    <2>1. s \in [1..K -> S]
        BY DEF Latest
    <2> QED
        BY <2>1, FunIsSeq
<1>2. t \in Seq(S) /\ Len(t) = m
    <2>1. t \in [1..m -> S]
        BY DEF Fresh
    <2> QED
        BY <2>1, FunIsSeq
<1>3. Latest(c, N + m, K + m) \in Seq(S) /\ Len(Latest(c, N + m, K + m)) = K + m
    <2>1. Latest(c, N + m, K + m) \in [1..K + m -> S]
        BY DEF Latest
    <2> QED
        BY <2>1, FunIsSeq
<1>4. /\ s \o t \in Seq(S)
      /\ Len(s \o t) = Len(s) + Len(t)
      /\ \A i \in 1..Len(s) + Len(t) :
            (s \o t)[i] = IF i <= Len(s) THEN s[i] ELSE t[i - Len(s)]
    <2> HIDE DEF s, t
    <2> QED
        BY <1>1, <1>2, ConcatProperties
<1>5. ASSUME NEW i \in 1..K + m
      PROVE  (s \o t)[i] = Latest(c, N + m, K + m)[i]
    <2>1. (s \o t)[i] = IF i <= K THEN s[i] ELSE t[i - K]
        BY <1>1, <1>2, <1>4
    <2>2. CASE i <= K
        BY <2>1, <2>2 DEF Latest
    <2>3. CASE ~(i <= K)
        <3>1. i - K \in 1..m
            BY <2>3
        <3> QED
            BY <2>1, <2>3, <3>1 DEF Latest, Fresh
    <2> QED
        BY <2>2, <2>3
<1>6. s \o t = Latest(c, N + m, K + m)
    <2> HIDE DEF s, t
    <2> QED
        BY <1>1, <1>2, <1>3, <1>4, <1>5, SeqEqual
<1> QED
    BY <1>6

(* A sequence is an initial segment of any of its extensions.             *)
LEMMA PrefixConcat ==
    ASSUME NEW S, NEW s \in Seq(S), NEW t \in Seq(S)
    PROVE  Abs!Prefix(s, s \o t)
<1>1. Len(s) \in Nat /\ Len(t) \in Nat
    BY LenProperties
<1>2. s \o t \in Seq(S) /\ Len(s \o t) = Len(s) + Len(t)
      /\ \A i \in 1..Len(s) + Len(t) :
            (s \o t)[i] = IF i <= Len(s) THEN s[i] ELSE t[i - Len(s)]
    BY ConcatProperties
<1>3. SubSeq(s \o t, 1, Len(s)) \in Seq(S)
      /\ Len(SubSeq(s \o t, 1, Len(s))) = Len(s)
      /\ \A i \in 1..Len(s) : SubSeq(s \o t, 1, Len(s))[i] = s[i]
    <2>1. \A i \in 1..Len(s) : (s \o t)[i] \in S
        BY <1>1, <1>2, ElementOfSeq
    <2> QED
        BY <1>1, <1>2, <2>1, SubSeqProperties
<1>4. SubSeq(s \o t, 1, Len(s)) = s
    BY <1>3, SeqEqual
<1> QED
    BY <1>1, <1>2, <1>4 DEF Abs!Prefix

(* push_front of a fresh entry shifts the deque by one.                   *)
LEMMA PushFront ==
    ASSUME NEW k \in Seq(Block), NEW b \in Nat
    PROVE  LET e == << NewBlock(b) >> \o k
           IN  /\ e \in Seq(Block)
               /\ Len(e) = Len(k) + 1
               /\ e[1] = NewBlock(b)
               /\ \A i \in 2..Len(k) + 1 : e[i] = k[i - 1]
<1>1. << NewBlock(b) >> \in Seq(Block) /\ Len(<< NewBlock(b) >>) = 1
    BY NewBlockType
<1>2. Len(k) \in Nat
    BY LenProperties
<1> HIDE DEF NewBlock
<1> QED
    BY <1>1, <1>2, ConcatProperties

(* The block bookkeeping of send_raw keeps every entry but the back one    *)
(* empty, and leaves at the back either the entry the mapping read before *)
(* or an empty one.                                                        *)
LEMMA EnsureBlockBack ==
    ASSUME NEW cs \in Seq(Block), Len(cs) <= MaxBlockHeight, EmptyBefore(cs),
           NEW b \in Nat
    PROVE  LET e == EnsureBlock(cs, b)
           IN  /\ EmptyBefore(e)
               /\ e[Len(e)].tree = LogOf(cs) \/ e[Len(e)].tree = EmptyTree
<1> DEFINE L == Len(cs)
           e == EnsureBlock(cs, b)
<1>1. L \in Nat /\ MaxBlockHeight \in Nat \ {0}
    BY LenProperties, WsAssumption
<1>2. NewBlock(b).tree = EmptyTree
    BY DEF NewBlock
<1>3. CASE ~(L = 0 \/ cs[L].id # b)
    <2>1. e = cs
        BY <1>3 DEF EnsureBlock
    <2>2. cs[L] \in Block
        BY <1>1, <1>3, ElementOfSeq
    <2>3. cs[L].tree = LogOf(cs)
        <3>1. cs # << >>
            BY <1>3
        <3> QED
            BY <2>2, <3>1 DEF LogOf, Block, Tree
    <2> QED
        BY <2>1, <2>3
<1>4. CASE L = 0
    <2>1. cs = << >>
        BY <1>1, <1>4, EmptySeq
    <2>2. e = << NewBlock(b) >>
        <3>1. e = << NewBlock(b) >> \o cs
            BY <1>1, <1>4 DEF EnsureBlock
        <3>2. << NewBlock(b) >> \in Seq(Block)
            BY NewBlockType
        <3> QED
            BY <2>1, <3>1, <3>2, ConcatEmptySeq
    <2> QED
        BY <1>2, <2>2 DEF EmptyBefore
<1>5. CASE L # 0 /\ cs[L].id # b /\ L # MaxBlockHeight
    <2>1. e = << NewBlock(b) >> \o cs
        BY <1>5 DEF EnsureBlock
    <2>2. /\ Len(e) = L + 1 /\ e[1] = NewBlock(b)
          /\ \A i \in 2..L + 1 : e[i] = cs[i - 1]
        BY <2>1, PushFront
    <2>3. EmptyBefore(e)
        BY <1>1, <1>2, <2>2 DEF EmptyBefore
    <2>4. e[Len(e)].tree = LogOf(cs)
        <3>1. cs[L] \in Block /\ cs # << >>
            BY <1>1, <1>5, ElementOfSeq
        <3> QED
            BY <1>1, <1>5, <2>2, <3>1 DEF LogOf, Block, Tree
    <2> QED
        BY <2>3, <2>4
<1>6. CASE L # 0 /\ cs[L].id # b /\ L = MaxBlockHeight
    <2> DEFINE kept == SubSeq(cs, 1, L - 1)
    <2>1. e = << NewBlock(b) >> \o kept
        BY <1>6 DEF EnsureBlock
    <2>2. kept \in Seq(Block) /\ Len(kept) = L - 1
          /\ \A j \in 1..L - 1 : kept[j] = cs[j]
        <3>1. \A j \in 1..L - 1 : cs[j] \in Block
            BY <1>1, ElementOfSeq
        <3> QED
            BY <1>1, <1>6, <3>1, SubSeqProperties
    <2>3. /\ Len(e) = L /\ e[1] = NewBlock(b)
          /\ \A i \in 2..L : e[i] = cs[i - 1]
        <3> HIDE DEF kept
        <3> QED
            BY <1>1, <1>6, <2>1, <2>2, PushFront
    <2>4. \A i \in 1..L : e[i].tree = EmptyTree
        BY <1>1, <1>2, <2>3 DEF EmptyBefore
    <2> QED
        BY <1>1, <1>6, <2>3, <2>4 DEF EmptyBefore
<1> QED
    BY <1>1, <1>3, <1>4, <1>5, <1>6

(* Appending a batch to the back entry touches no other entry, and extends *)
(* each connection's messages in the back entry by that connection's part *)
(* of the batch.                                                           *)
LEMMA AppendToBackBack ==
    ASSUME NEW e \in Seq(Block), Len(e) >= 1, EmptyBefore(e),
           NEW n \in [Conns -> Nat], sentIn \in [Conns -> Seq(Nat)]
    PROVE  LET a == AppendToBack(e, n)
           IN  /\ EmptyBefore(a)
               /\ a # << >>
               /\ \A c \in Conns :
                     a[Len(a)].tree[c] = e[Len(e)].tree[c] \o NewMsgs(c, n[c])
<1> DEFINE L == Len(e)
           t == [c \in Conns |-> e[L].tree[c] \o NewMsgs(c, n[c])]
           x == [e[L] EXCEPT !.tree = t]
           a == AppendToBack(e, n)
<1>1. L \in 1..Len(e) /\ e[L] \in Block
    BY LenProperties, ElementOfSeq
<1>2. x \in Block
    <2>1. \A c \in Conns : e[L].tree[c] \in Seq(Msg)
        BY <1>1 DEF Block, Tree
    <2>2. \A c \in Conns : NewMsgs(c, n[c]) \in Seq(Msg)
        BY NewMsgsType
    <2>3. t \in Tree
        BY <2>1, <2>2, ConcatProperties DEF Tree
    <2> HIDE DEF t
    <2> QED
        BY <1>1, <2>3 DEF Block
<1>3. a = [e EXCEPT ![L] = x]
    BY DEF AppendToBack
<1>4. a \in Seq(Block) /\ Len(a) = L
      /\ \A j \in 1..L : a[j] = IF j = L THEN x ELSE e[j]
    <2> HIDE DEF x, a
    <2> QED
        BY <1>1, <1>2, <1>3, ExceptSeq
<1>5. a # << >>
    <2> HIDE DEF a, x
    <2> QED
        BY <1>1, <1>4, EmptySeq
<1>6. EmptyBefore(a)
    <2>1. \A j \in 1..L - 1 : a[j] = e[j]
        <3> HIDE DEF a, x
        <3> QED
            BY <1>1, <1>4
    <2>2. \A j \in 1..L - 1 : e[j].tree = EmptyTree
        BY DEF EmptyBefore
    <2> HIDE DEF a
    <2> QED
        BY <1>4, <2>1, <2>2 DEF EmptyBefore
<1>7. \A c \in Conns : a[Len(a)].tree[c] = e[L].tree[c] \o NewMsgs(c, n[c])
    <2>1. a[Len(a)] = x
        BY <1>1, <1>4
    <2>2. x.tree = t
        BY <1>1 DEF Block
    <2> HIDE DEF a, x
    <2> QED
        BY <2>1, <2>2
<1> QED
    BY <1>5, <1>6, <1>7

(* The mapping, in terms of the deque and of the history.                 *)
LEMMA MappingDefs == Log = LogOf(connections) /\ Sent = SentOf(sentIn)
BY DEF Log, Back, LogOf, Sent, SentOf

(* The j-th message of connection c has been sent when j is at most the   *)
(* number of messages sent to c.                                          *)
LEMMA SentOfMember ==
    ASSUME NEW si, NEW c \in Conns, NEW j
    PROVE  <<c, j>> \in SentOf(si) <=> j \in 1..Len(si[c])
BY DEF SentOf

(* A log in which every connection holds the last messages sent to it     *)
(* holds no message twice.                                                 *)
LEMMA LatestUnique ==
    ASSUME NEW l,
           \A c \in Conns : \E N \in Nat : \E K \in 0..N : l[c] = Latest(c, N, K)
    PROVE  Abs!Unique(l)
<1> SUFFICES ASSUME NEW c \in Conns, NEW d \in Conns,
                    NEW i \in 1..Len(l[c]), NEW j \in 1..Len(l[d]),
                    l[c][i] = l[d][j]
             PROVE  c = d /\ i = j
    BY DEF Abs!Unique
<1>1. PICK N1 \in Nat : \E K \in 0..N1 : l[c] = Latest(c, N1, K)
    OBVIOUS
<1>a. PICK K1 \in 0..N1 : l[c] = Latest(c, N1, K1)
    BY <1>1
<1>2. PICK N2 \in Nat : \E K \in 0..N2 : l[d] = Latest(d, N2, K)
    OBVIOUS
<1>b. PICK K2 \in 0..N2 : l[d] = Latest(d, N2, K2)
    BY <1>2
<1>3. K1 \in Nat /\ K2 \in Nat
    OBVIOUS
<1>4. Len(l[c]) = K1 /\ Len(l[d]) = K2
    <2>1. Latest(c, N1, K1) \in [1..K1 -> Conns \X Nat]
        BY DEF Latest
    <2>2. Latest(d, N2, K2) \in [1..K2 -> Conns \X Nat]
        BY DEF Latest
    <2> QED
        BY <1>a, <1>b, <1>3, <2>1, <2>2, FunIsSeq
<1>5. l[c][i] = <<c, N1 - K1 + i>> /\ l[d][j] = <<d, N2 - K2 + j>>
    BY <1>a, <1>b, <1>4 DEF Latest
<1>6. c = d
    <2>1. \A y, a, x : y = <<a, x>> => y[1] = a
        OBVIOUS
    <2>2. l[c][i][1] = c /\ l[d][j][1] = d
        BY <1>5, <2>1
    <2> QED
        BY <2>2
<1>7. l[d][j] = <<c, N1 - K1 + j>>
    BY <1>a, <1>4, <1>6 DEF Latest
<1>8. i = j
    <2>0. \A y, a, x : y = <<a, x>> => y[2] = x
        OBVIOUS
    <2>1. l[c][i][2] = N1 - K1 + i
        BY <1>5, <2>0
    <2>2. l[d][j][2] = N1 - K1 + j
        BY <1>7, <2>0
    <2>3. N1 - K1 + i = N1 - K1 + j
        BY <2>1, <2>2
    <2> QED
        BY <2>3
<1> QED
    BY <1>6, <1>8

(* A batch of m messages for connection c appended after the messages X   *)
(* the log keeps: X is an initial segment of the result, what follows it  *)
(* are messages sent by this batch, never before, and every message the   *)
(* batch sends to c is there.                                              *)
LEMMA BatchTail ==
    ASSUME sentIn \in [Conns -> Seq(Nat)], NEW c \in Conns, NEW m \in Nat,
           Len(sentIn'[c]) = Len(sentIn[c]) + m, NEW X \in Seq(Msg)
    PROVE  /\ Abs!Prefix(X, X \o NewMsgs(c, m))
           /\ \A i \in (Len(X) + 1)..Len(X \o NewMsgs(c, m)) :
                 (X \o NewMsgs(c, m))[i] \in Sent' \ Sent
           /\ \A j \in (Len(sentIn[c]) + 1)..Len(sentIn'[c]) :
                 \E i \in 1..Len(X \o NewMsgs(c, m)) : (X \o NewMsgs(c, m))[i] = <<c, j>>
<1> DEFINE N == Len(sentIn[c])
           M == NewMsgs(c, m)
<1>1. N \in Nat /\ Len(X) \in Nat
    BY LenProperties
<1>2. M \in Seq(Msg) /\ Len(M) = m /\ \A j \in 1..m : M[j] = <<c, N + j>>
    <2>1. M \in [1..m -> Msg]
        BY <1>1, WsAssumption DEF NewMsgs, Msg
    <2>2. M \in Seq(Msg) /\ Len(M) = m
        <3> HIDE DEF M
        <3> QED
            BY <2>1, FunIsSeq
    <2> QED
        BY <2>2 DEF NewMsgs
<1>3. /\ Len(X \o M) = Len(X) + m
      /\ \A i \in 1..Len(X) + m :
            (X \o M)[i] = IF i <= Len(X) THEN X[i] ELSE M[i - Len(X)]
    <2> HIDE DEF M
    <2> QED
        BY <1>2, ConcatProperties
<1>4. Abs!Prefix(X, X \o M)
    <2> HIDE DEF M
    <2> QED
        BY <1>2, PrefixConcat
<1>5. ASSUME NEW i \in (Len(X) + 1)..Len(X \o M)
      PROVE  (X \o M)[i] \in Sent' \ Sent
    <2>1. i - Len(X) \in 1..m
        BY <1>1, <1>3
    <2>2. (X \o M)[i] = <<c, N + (i - Len(X))>>
        <3> HIDE DEF M
        <3> QED
            BY <1>1, <1>2, <1>3, <2>1
    <2>3. N + (i - Len(X)) \in 1..Len(sentIn'[c])
          /\ N + (i - Len(X)) \notin 1..Len(sentIn[c])
        BY <1>1, <2>1
    <2>4. Sent' = SentOf(sentIn') /\ Sent = SentOf(sentIn)
        BY DEF Sent, SentOf
    <2> HIDE DEF M, N
    <2> QED
        BY <2>2, <2>3, <2>4, SentOfMember
<1>6. ASSUME NEW j \in (N + 1)..Len(sentIn'[c])
      PROVE  \E i \in 1..Len(X \o M) : (X \o M)[i] = <<c, j>>
    <2>1. j - N \in 1..m
        BY <1>1
    <2>2. (X \o M)[Len(X) + (j - N)] = <<c, j>>
        <3>1. Len(X) + (j - N) \in 1..Len(X) + m /\ ~(Len(X) + (j - N) <= Len(X))
            BY <1>1, <2>1
        <3>2. (X \o M)[Len(X) + (j - N)] = M[j - N]
            <4>1. (Len(X) + (j - N)) - Len(X) = j - N
                BY <1>1, <2>1
            <4> HIDE DEF M, N
            <4> QED
                BY <1>3, <3>1, <4>1
        <3>3. M[j - N] = <<c, j>>
            <4> HIDE DEF M
            <4> QED
                BY <1>1, <1>2, <2>1
        <3> QED
            BY <3>2, <3>3
    <2>3. Len(X) + (j - N) \in 1..Len(X \o M)
        BY <1>1, <1>3, <2>1
    <2> HIDE DEF M, N
    <2> QED
        BY <2>2, <2>3
<1> QED
    BY <1>4, <1>5, <1>6

(* send_raw keeps the refinement invariant and is a Send of the abstract  *)
(* log: each connection's log keeps all it held (the back entry stays the *)
(* back) or nothing (the back entry was popped and the new back is       *)
(* empty), then gains the connection's part of the batch.                 *)
LEMMA SendRawRefines ==
    ASSUME RInv, NEW n \in [Conns -> 0..MaxBatch], SendRaw(n)
    PROVE  RInv' /\ Abs!Send
<1> DEFINE b == GetCurrentBlockId
           ens == EnsureBlock(connections, b)
           E == ens[Len(ens)]
<1>1. /\ connections \in Seq(Block) /\ Len(connections) <= MaxBlockHeight
      /\ EmptyBefore(connections)
      /\ sentIn \in [Conns -> Seq(Nat)]
    BY DEF RInv, IInv, TypeOK, BoundedBlocks, OnlyBackHoldsMessages, EmptyBefore
<1>2. b \in Nat
    <2>1. now \in Nat
        BY WsAssumption DEF RInv, IInv, TypeOK
    <2> QED
        BY <2>1, BlockIdNat
<1>3. IInv'
    BY SendRawIInv DEF RInv
<1>4. ens \in Seq(Block) /\ Len(ens) \in 1..MaxBlockHeight
    BY <1>1, <1>2, EnsureBlockType
<1>5. EmptyBefore(ens) /\ (E.tree = LogOf(connections) \/ E.tree = EmptyTree)
    BY <1>1, <1>2, EnsureBlockBack
<1>6. E \in Block
    BY <1>4, ElementOfSeq
<1>7. /\ EmptyBefore(connections') /\ connections' # << >>
      /\ \A c \in Conns :
            connections'[Len(connections')].tree[c] = E.tree[c] \o NewMsgs(c, n[c])
    <2>1. n \in [Conns -> Nat]
        BY WsAssumption
    <2>2. connections' = AppendToBack(ens, n)
        BY DEF SendRaw
    <2>3. LET a == AppendToBack(ens, n)
          IN  /\ EmptyBefore(a)
              /\ a # << >>
              /\ \A c \in Conns :
                    a[Len(a)].tree[c] = ens[Len(ens)].tree[c] \o NewMsgs(c, n[c])
        <3>1. Len(ens) >= 1
            BY <1>4
        <3>2. EmptyBefore(ens)
            BY <1>5
        <3> HIDE DEF ens
        <3> QED
            BY <1>1, <1>4, <2>1, <3>1, <3>2, AppendToBackBack
    <2> HIDE DEF ens
    <2> QED
        BY <2>2, <2>3
<1>8. \A c \in Conns : Log'[c] = E.tree[c] \o NewMsgs(c, n[c])
    BY <1>7 DEF Log, Back
<1>9. \A c \in Conns : E.tree[c] = Log[c] \/ E.tree[c] = << >>
    BY <1>5, MappingDefs DEF LogOf, EmptyTree
<1>10. \A c \in Conns : /\ Len(sentIn'[c]) = Len(sentIn[c]) + n[c]
                        /\ Len(sentIn'[c]) <= MaxMsgs
    <2> SUFFICES ASSUME NEW c \in Conns
                 PROVE  Len(sentIn'[c]) = Len(sentIn[c]) + n[c]
        BY DEF SendRaw
    <2>1. [j \in 1..n[c] |-> b] \in Seq(Nat) /\ Len([j \in 1..n[c] |-> b]) = n[c]
        <3>1. n[c] \in Nat
            BY WsAssumption
        <3> QED
            BY <1>2, <3>1, FunIsSeq
    <2>2. sentIn'[c] = sentIn[c] \o [j \in 1..n[c] |-> b]
        BY DEF SendRaw
    <2> HIDE DEF b
    <2> QED
        BY <1>1, <2>1, <2>2, ConcatProperties
<1>11. ASSUME NEW c \in Conns
       PROVE  \E K \in 0..Len(sentIn[c]) : E.tree[c] = Latest(c, Len(sentIn[c]), K)
    <2>1. PICK K \in 0..Len(sentIn[c]) : Log[c] = Latest(c, Len(sentIn[c]), K)
        BY DEF RInv, LogHoldsLatest
    <2>2. CASE E.tree[c] = Log[c]
        BY <2>1, <2>2
    <2>3. CASE E.tree[c] = << >>
        BY <2>3, LatestEmpty
    <2> QED
        BY <1>9, <2>2, <2>3
<1>12. ASSUME NEW c \in Conns
       PROVE  \E K \in 0..Len(sentIn'[c]) : Log'[c] = Latest(c, Len(sentIn'[c]), K)
    <2> DEFINE N == Len(sentIn[c])
    <2>1. PICK K \in 0..N : E.tree[c] = Latest(c, N, K)
        BY <1>11
    <2>2. N \in Nat /\ n[c] \in Nat
        BY <1>1, LenProperties, WsAssumption
    <2>3. NewMsgs(c, n[c]) = Fresh(c, N, n[c])
        BY DEF NewMsgs, Fresh
    <2>4. Latest(c, N, K) \o Fresh(c, N, n[c]) = Latest(c, N + n[c], K + n[c])
        <3>1. K \in 0..N /\ N \in Nat /\ n[c] \in Nat
            BY <2>1, <2>2
        <3> HIDE DEF N
        <3> QED
            BY <3>1, LatestExtend
    <2>5. Log'[c] = Latest(c, N + n[c], K + n[c])
        <3> HIDE DEF N, E
        <3> QED
            BY <1>8, <2>1, <2>3, <2>4
    <2> QED
        BY <1>10, <2>2, <2>5
<1>13. RInv'
    <2>1. OnlyBackHoldsMessages'
        BY <1>7 DEF OnlyBackHoldsMessages, EmptyBefore
    <2>2. LogHoldsLatest'
        BY <1>12 DEF LogHoldsLatest
    <2>3. SentBounded'
        BY <1>10 DEF SentBounded
    <2> QED
        BY <1>3, <2>1, <2>2, <2>3 DEF RInv
<1>14. Abs!Send
    <2>1. Sent \subseteq Sent' /\ Sent' \subseteq AbsMsgs
        <3>1. \A c \in Conns : Len(sentIn[c]) <= Len(sentIn'[c])
            BY <1>1, <1>10, LenProperties
        <3>2. Sent \subseteq Sent'
            <4> SUFFICES ASSUME NEW x \in Sent PROVE x \in Sent'
                OBVIOUS
            <4>1. PICK c \in Conns : \E j \in 1..Len(sentIn[c]) : x = <<c, j>>
                BY DEF Sent
            <4>2. PICK j \in 1..Len(sentIn[c]) : x = <<c, j>>
                BY <4>1
            <4>3. j \in 1..Len(sentIn'[c])
                BY <3>1
            <4> QED
                BY <4>2, <4>3 DEF Sent
        <3>3. Sent' \subseteq AbsMsgs
            <4> SUFFICES ASSUME NEW x \in Sent' PROVE x \in AbsMsgs
                OBVIOUS
            <4>1. PICK c \in Conns : \E j \in 1..Len(sentIn'[c]) : x = <<c, j>>
                BY DEF Sent
            <4>2. PICK j \in 1..Len(sentIn'[c]) : x = <<c, j>>
                BY <4>1
            <4>3. Len(sentIn'[c]) \in Nat /\ Len(sentIn'[c]) <= MaxMsgs
                BY <1>1, <1>10, LenProperties, WsAssumption
            <4>4. j \in 1..MaxMsgs
                BY <4>2, <4>3, WsAssumption
            <4> QED
                BY <4>2, <4>4 DEF AbsMsgs
        <3> QED
            BY <3>2, <3>3
    <2>2. \A c \in Conns : \E N \in Nat : \E K \in 0..N : Log'[c] = Latest(c, N, K)
        <3>1. \A c \in Conns : Len(sentIn'[c]) \in Nat
            BY <1>10, <1>1, LenProperties
        <3> QED
            BY <1>12, <3>1
    <2>3. Log' \in [Conns -> Seq(AbsMsgs)]
        <3>1. \A c \in Conns : Log'[c] \in Seq(AbsMsgs)
            <4> SUFFICES ASSUME NEW c \in Conns PROVE Log'[c] \in Seq(AbsMsgs)
                OBVIOUS
            <4>1. PICK K \in 0..Len(sentIn'[c]) :
                      Log'[c] = Latest(c, Len(sentIn'[c]), K)
                BY <1>12
            <4>2. Len(sentIn'[c]) \in 0..MaxMsgs
                BY <1>1, <1>10, LenProperties
            <4> QED
                BY <4>1, <4>2, LatestType
        <3> QED
            BY <3>1 DEF Log
    <2>4. Abs!Unique(Log')
        BY <2>2, LatestUnique
    <2>6. ASSUME NEW c \in Conns
          PROVE  /\ Abs!Prefix(E.tree[c], E.tree[c] \o NewMsgs(c, n[c]))
                 /\ \A i \in (Len(E.tree[c]) + 1)..Len(E.tree[c] \o NewMsgs(c, n[c])) :
                       (E.tree[c] \o NewMsgs(c, n[c]))[i] \in Sent' \ Sent
                 /\ \A j \in (Len(sentIn[c]) + 1)..Len(sentIn'[c]) :
                       \E i \in 1..Len(E.tree[c] \o NewMsgs(c, n[c])) :
                          (E.tree[c] \o NewMsgs(c, n[c]))[i] = <<c, j>>
        <3>1. E.tree[c] \in Seq(Msg)
            BY <1>6 DEF Block, Tree
        <3>2. n[c] \in Nat
            BY WsAssumption
        <3>3. sentIn \in [Conns -> Seq(Nat)]
            BY <1>1
        <3>4. Len(sentIn'[c]) = Len(sentIn[c]) + n[c]
            BY <1>10
        <3> HIDE DEF E, b, ens, RInv, SendRaw, Sent, NewMsgs
        <3>5. Abs!Prefix(E.tree[c], E.tree[c] \o NewMsgs(c, n[c]))
            BY <3>1, <3>2, <3>3, <3>4, BatchTail
        <3>6. \A i \in (Len(E.tree[c]) + 1)..Len(E.tree[c] \o NewMsgs(c, n[c])) :
                 (E.tree[c] \o NewMsgs(c, n[c]))[i] \in Sent' \ Sent
            BY <3>1, <3>2, <3>3, <3>4, BatchTail
        <3>7. \A j \in (Len(sentIn[c]) + 1)..Len(sentIn'[c]) :
                 \E i \in 1..Len(E.tree[c] \o NewMsgs(c, n[c])) :
                    (E.tree[c] \o NewMsgs(c, n[c]))[i] = <<c, j>>
            BY <3>1, <3>2, <3>3, <3>4, BatchTail
        <3> QED
            BY <3>5, <3>6, <3>7
    <2>5. ASSUME NEW c \in Conns
          PROVE  \E k \in 0..Len(Log[c]) :
                    LET kept == SubSeq(Log[c], k + 1, Len(Log[c])) IN
                    /\ Abs!Prefix(kept, Log'[c])
                    /\ \A i \in (Len(kept) + 1)..Len(Log'[c]) :
                          Log'[c][i] \in Sent' \ Sent
        <3>1. Log[c] \in Seq(Msg)
            <4>1. CASE connections = << >>
                BY <4>1, EmptySeq DEF Log
            <4>2. CASE connections # << >>
                <5>1. Back \in Block
                    BY <1>1, <4>2, ElementOfSeq, EmptySeq DEF Back
                <5> QED
                    BY <4>2, <5>1 DEF Log, Block, Tree
            <4> QED
                BY <4>1, <4>2
        <3>2. E.tree[c] \in Seq(Msg)
            BY <1>6 DEF Block, Tree
        <3>3. \E k \in 0..Len(Log[c]) : SubSeq(Log[c], k + 1, Len(Log[c])) = E.tree[c]
            <4>1. Len(Log[c]) \in Nat
                BY <3>1, LenProperties
            <4>2. CASE E.tree[c] = Log[c]
                <5>1. SubSeq(Log[c], 0 + 1, Len(Log[c])) = Log[c]
                    BY <3>1, SubSeqFull
                <5> QED
                    BY <4>1, <4>2, <5>1
            <4>3. CASE E.tree[c] = << >>
                <5>1. SubSeq(Log[c], Len(Log[c]) + 1, Len(Log[c])) = << >>
                    BY <4>1, SubSeqEmpty
                <5>2. Len(Log[c]) \in 0..Len(Log[c])
                    BY <4>1
                <5> HIDE DEF E
                <5> QED
                    BY <4>3, <5>1, <5>2
            <4> QED
                BY <1>9, <4>2, <4>3
        <3>4. /\ Abs!Prefix(E.tree[c], E.tree[c] \o NewMsgs(c, n[c]))
              /\ \A i \in (Len(E.tree[c]) + 1)..Len(E.tree[c] \o NewMsgs(c, n[c])) :
                    (E.tree[c] \o NewMsgs(c, n[c]))[i] \in Sent' \ Sent
            BY <2>6
        <3> HIDE DEF E
        <3> QED
            BY <1>8, <3>3, <3>4
    <2>7. \A x \in Sent' \ Sent : \E i \in 1..Len(Log'[x[1]]) : Log'[x[1]][i] = x
        <3> SUFFICES ASSUME NEW x \in Sent' \ Sent
                     PROVE  \E i \in 1..Len(Log'[x[1]]) : Log'[x[1]][i] = x
            OBVIOUS
        <3>1. PICK c \in Conns : \E j \in 1..Len(sentIn'[c]) : x = <<c, j>>
            BY DEF Sent
        <3>2. PICK j \in 1..Len(sentIn'[c]) : x = <<c, j>>
            BY <3>1
        <3>3. x[1] = c
            <4>1. \A y, a, z : y = <<a, z>> => y[1] = a
                OBVIOUS
            <4> QED
                BY <3>2, <4>1
        <3>4. j \in (Len(sentIn[c]) + 1)..Len(sentIn'[c])
            <4>1. x \notin SentOf(sentIn)
                BY DEF Sent, SentOf
            <4>2. j \notin 1..Len(sentIn[c])
                BY <3>2, <4>1, SentOfMember
            <4>3. Len(sentIn[c]) \in Nat
                BY <1>1, LenProperties
            <4> QED
                BY <4>2, <4>3
        <3>5. \E i \in 1..Len(E.tree[c] \o NewMsgs(c, n[c])) :
                  (E.tree[c] \o NewMsgs(c, n[c]))[i] = x
            BY <2>6, <3>2, <3>4
        <3> HIDE DEF E
        <3> QED
            BY <1>8, <3>3, <3>5
    <2> QED
        BY <2>1, <2>3, <2>4, <2>5, <2>7 DEF Abs!Send, AbsMsgs
<1> QED
    BY <1>13, <1>14

(* close_connections keeps the refinement invariant and is a Close of the *)
(* abstract log: the closed connections' logs become empty, the others    *)
(* and the sent messages are unchanged.                                    *)
LEMMA CloseRefines ==
    ASSUME RInv, NEW cl \in SUBSET Conns, CloseConnections(cl)
    PROVE  RInv' /\ Abs!Close(cl)
<1> DEFINE Clear(t) == [c \in Conns |-> IF c \in cl THEN << >> ELSE t[c]]
           L == Len(connections)
<1>1. connections \in Seq(Block) /\ EmptyBefore(connections) /\ L \in Nat
    BY LenProperties DEF RInv, IInv, TypeOK, OnlyBackHoldsMessages, EmptyBefore
<1>2. /\ connections' \in Seq(Block) /\ Len(connections') = L
      /\ \A i \in 1..L :
            connections'[i] = [connections[i] EXCEPT !.tree = Clear(connections[i].tree)]
    <2>1. connections' \in Seq(Block) /\ Len(connections') = L
        BY <1>1, CloseType DEF CloseConnections
    <2> QED
        BY <2>1 DEF CloseConnections
<1>3. \A i \in 1..L : connections'[i].tree = Clear(connections[i].tree)
    <2> SUFFICES ASSUME NEW i \in 1..L
                 PROVE  connections'[i].tree = Clear(connections[i].tree)
        OBVIOUS
    <2>1. connections[i] \in Block
        BY <1>1, ElementOfSeq
    <2> HIDE DEF Clear
    <2> QED
        BY <1>2, <2>1 DEF Block
<1>4. Clear(EmptyTree) = EmptyTree
    BY DEF EmptyTree
<1>5. OnlyBackHoldsMessages'
    BY <1>1, <1>2, <1>3, <1>4 DEF OnlyBackHoldsMessages, EmptyBefore
<1>6. Log' = [c \in Conns |-> IF c \in cl THEN << >> ELSE Log[c]]
    <2>1. CASE L = 0
        <3>1. connections = << >> /\ connections' = << >>
            BY <1>1, <1>2, <2>1, EmptySeq
        <3> QED
            BY <3>1 DEF Log
    <2>2. CASE L # 0
        <3>1. connections # << >> /\ connections' # << >> /\ L \in 1..L
            BY <1>1, <1>2, <2>2, EmptySeq
        <3> QED
            BY <1>2, <1>3, <3>1 DEF Log, Back
    <2> QED
        BY <2>1, <2>2
<1>7. UNCHANGED sentIn
    BY DEF CloseConnections
<1>8. LogHoldsLatest'
    <2> SUFFICES ASSUME NEW c \in Conns
                 PROVE  \E K \in 0..Len(sentIn'[c]) :
                            Log'[c] = Latest(c, Len(sentIn'[c]), K)
        BY DEF LogHoldsLatest
    <2>1. PICK K \in 0..Len(sentIn[c]) : Log[c] = Latest(c, Len(sentIn[c]), K)
        BY DEF RInv, LogHoldsLatest
    <2>2. Len(sentIn[c]) \in Nat
        BY LenProperties DEF RInv, IInv, TypeOK
    <2>3. CASE c \in cl
        BY <1>6, <1>7, <2>2, <2>3, LatestEmpty
    <2>4. CASE c \notin cl
        BY <1>6, <1>7, <2>1, <2>4
    <2> QED
        BY <2>3, <2>4
<1>9. RInv'
    <2>1. IInv'
        BY CloseIInv DEF RInv
    <2>2. SentBounded'
        BY <1>7 DEF RInv, SentBounded
    <2> QED
        BY <1>5, <1>8, <2>1, <2>2 DEF RInv
<1>10. Abs!Close(cl)
    <2>1. UNCHANGED Sent
        BY <1>7 DEF Sent
    <2> QED
        BY <1>6, <2>1 DEF Abs!Close
<1> QED
    BY <1>9, <1>10

(* Time passing is a stutter of the abstract log.                          *)
LEMMA TickRefines ==
    ASSUME RInv, Tick
    PROVE  RInv' /\ UNCHANGED <<Log, Sent>>
<1>1. IInv'
    BY TickIInv DEF RInv
<1>2. UNCHANGED <<connections, sentIn>>
    BY DEF Tick
<1> QED
    BY <1>1, <1>2 DEF RInv, OnlyBackHoldsMessages, LogHoldsLatest,
       SentBounded, Log, Back, Sent

(* WsConnections::new maps to the empty abstract log.                      *)
LEMMA InitRefines == Init => RInv /\ Abs!Init
<1> SUFFICES ASSUME Init PROVE RInv /\ Abs!Init
    OBVIOUS
<1>1. IInv
    BY InitIInv
<1>2. \A c \in Conns : Len(sentIn[c]) = 0
    BY EmptySeq DEF Init
<1>3. Log = [c \in Conns |-> << >>]
    BY DEF Init, Log
<1>4. Sent = {}
    BY <1>2 DEF Sent
<1>5. LogHoldsLatest
    <2> SUFFICES ASSUME NEW c \in Conns
                 PROVE  \E K \in 0..Len(sentIn[c]) :
                            Log[c] = Latest(c, Len(sentIn[c]), K)
        BY DEF LogHoldsLatest
    <2>1. Log[c] = << >> /\ Len(sentIn[c]) = 0
        BY <1>2, <1>3
    <2>2. Latest(c, 0, 0) = << >>
        BY LatestEmpty
    <2> QED
        BY <2>1, <2>2
<1>6. OnlyBackHoldsMessages /\ SentBounded
    BY <1>2, EmptySeq, WsAssumption DEF Init, OnlyBackHoldsMessages, SentBounded
<1> QED
    BY <1>1, <1>3, <1>4, <1>5, <1>6 DEF RInv, Abs!Init

(* Every step of the deque is a step of the abstract log or leaves the     *)
(* log and the sent messages alone.                                        *)
LEMMA NextRefines ==
    ASSUME RInv, [Next]_vars
    PROVE  RInv' /\ [Abs!Next]_<<Log, Sent>>
<1>1. CASE \E n \in [Conns -> 0..MaxBatch] : SendRaw(n)
    BY <1>1, SendRawRefines DEF Abs!Next
<1>2. CASE \E cl \in SUBSET Conns : cl # {} /\ CloseConnections(cl)
    BY <1>2, CloseRefines DEF Abs!Next
<1>3. CASE Tick
    BY <1>3, TickRefines
<1>4. CASE UNCHANGED vars
    BY <1>4 DEF vars, RInv, IInv, TypeOK, BoundedBlocks, OnlyBackHoldsMessages,
       LogHoldsLatest, SentBounded, Log, Back, Sent
<1> QED
    BY <1>1, <1>2, <1>3, <1>4 DEF Next

(* send_raw and close_connections implement the abstract log for every     *)
(* MAX_BLOCK_HEIGHT, set of connections and bound on messages: per         *)
(* connection, messages stay in send order, are never duplicated or        *)
(* invented, are forgotten only from the oldest end, and a close empties   *)
(* the connection's log.                                                    *)
THEOREM LogRefinement == Spec => WsLogRefined
<1>1. Spec => []RInv /\ Abs!Init /\ [][Abs!Next]_<<Log, Sent>>
    BY InitRefines, NextRefines, PTL DEF Spec
<1> QED
    BY <1>1 DEF WsLogRefined, Abs!Spec

(* Only the back entry of the deque ever holds messages: send_raw appends *)
(* to the back entry only, and the entry it pushes is pushed at the front *)
(* empty (connections.rs:53-72), so every entry but the back one is       *)
(* empty in every reachable state.                                        *)
THEOREM BackOnly == Spec => []OnlyBackHoldsMessages
<1>1. RInv => OnlyBackHoldsMessages
    BY DEF RInv
<1> QED
    BY <1>1, InitRefines, NextRefines, PTL DEF Spec
=============================================================================
