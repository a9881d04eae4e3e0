------------------------ MODULE WsConnectionsProofs ------------------------
(***************************************************************************)
(* Proofs about the connection log of WsConnections, for every value of    *)
(* the constants that satisfies WsAssumption: the deque is well typed and  *)
(* never holds more than MAX_BLOCK_HEIGHT entries.                         *)
(***************************************************************************)
EXTENDS WsRefinement, SequenceTheorems, TLAPS

(* A function on 1..k is a sequence of length k.                          *)
LEMMA FunIsSeq ==
    ASSUME NEW S, NEW k \in Nat, NEW f \in [1..k -> S]
    PROVE  f \in Seq(S) /\ Len(f) = k
<1>1. f \in Seq(S)
    BY SeqDef
<1>2. DOMAIN f = 1..Len(f) /\ Len(f) \in Nat
    BY <1>1, LenProperties
<1> QED
    BY <1>1, <1>2

(* A block id computed from a time is a natural number.                    *)
LEMMA BlockIdNat ==
    ASSUME now \in Nat
    PROVE  GetCurrentBlockId \in Nat
BY DEF GetCurrentBlockId, BlockPeriod

(* The root hash of a well-typed deque is a sequence of (id, tree) pairs.  *)
LEMMA RootHashType ==
    ASSUME NEW cs \in Seq(Block)
    PROVE  RootHash(cs) \in Seq(Nat \X Tree)
<1>1. \A i \in 1..Len(cs) : cs[i] \in Block
    BY ElementOfSeq
<1>2. \A i \in 1..Len(cs) : <<cs[i].id, cs[i].tree>> \in Nat \X Tree
    BY <1>1 DEF Block
<1>3. Len(cs) \in Nat
    BY LenProperties
<1> QED
    BY <1>2, <1>3 DEF RootHash

(* A fresh entry for block b is a Block.                                   *)
LEMMA NewBlockType ==
    ASSUME NEW b \in Nat
    PROVE  NewBlock(b) \in Block
BY DEF NewBlock, EmptyTree, Block, Tree

(* The block bookkeeping of send_raw leaves a non-empty deque of at most   *)
(* MAX_BLOCK_HEIGHT entries: it pops before it pushes when full.           *)
LEMMA EnsureBlockType ==
    ASSUME NEW cs \in Seq(Block), Len(cs) <= MaxBlockHeight, NEW b \in Nat
    PROVE  /\ EnsureBlock(cs, b) \in Seq(Block)
           /\ Len(EnsureBlock(cs, b)) \in 1..MaxBlockHeight
<1> DEFINE L == Len(cs)
           kept == IF L = MaxBlockHeight THEN SubSeq(cs, 1, L - 1) ELSE cs
<1>1. L \in Nat /\ MaxBlockHeight \in Nat \ {0}
    BY LenProperties, WsAssumption
<1>2. kept \in Seq(Block) /\ Len(kept) \in 0..MaxBlockHeight - 1
    <2>1. CASE L = MaxBlockHeight
        <3>1. \A i \in 1..L - 1 : cs[i] \in Block
            BY <1>1, ElementOfSeq
        <3>2. SubSeq(cs, 1, L - 1) \in Seq(Block)
            BY <1>1, <3>1, SubSeqProperties
        <3>3. Len(SubSeq(cs, 1, L - 1)) = L - 1
            BY <1>1, <2>1, <3>1, SubSeqProperties
        <3> QED
            BY <1>1, <2>1, <3>2, <3>3
    <2>2. CASE L # MaxBlockHeight
        BY <1>1, <2>2
    <2> QED
        BY <2>1, <2>2
<1>3. << NewBlock(b) >> \o kept \in Seq(Block)
      /\ Len(<< NewBlock(b) >> \o kept) = 1 + Len(kept)
    BY <1>2, NewBlockType, ConcatProperties
<1>4. CASE L = 0 \/ cs[L].id # b
    <2>1. EnsureBlock(cs, b) = << NewBlock(b) >> \o kept
        BY <1>4 DEF EnsureBlock
    <2>2. Len(kept) \in Nat
        BY <1>2, LenProperties
    <2> HIDE DEF kept
    <2> QED
        BY <1>1, <1>2, <1>3, <2>1, <2>2
<1>5. CASE ~(L = 0 \/ cs[L].id # b)
    <2>1. EnsureBlock(cs, b) = cs
        BY <1>5 DEF EnsureBlock
    <2> QED
        BY <1>1, <1>5, <2>1
<1> QED
    BY <1>4, <1>5

(* The messages of a batch for one connection are messages of it.          *)
LEMMA NewMsgsType ==
    ASSUME sentIn \in [Conns -> Seq(Nat)], NEW c \in Conns, NEW k \in Nat
    PROVE  NewMsgs(c, k) \in Seq(Msg)
<1>1. Len(sentIn[c]) \in Nat
    BY LenProperties
<1>2. NewMsgs(c, k) \in [1..k -> Msg]
    BY <1>1 DEF Msg, NewMsgs
<1> QED
    BY <1>2, FunIsSeq

(* Appending a batch to the back entry keeps the deque typed and its       *)
(* length unchanged.                                                       *)
LEMMA AppendToBackType ==
    ASSUME NEW cs \in Seq(Block), Len(cs) >= 1, NEW n \in [Conns -> Nat],
           sentIn \in [Conns -> Seq(Nat)]
    PROVE  /\ AppendToBack(cs, n) \in Seq(Block)
           /\ Len(AppendToBack(cs, n)) = Len(cs)
<1> DEFINE L == Len(cs)
           t == [c \in Conns |-> cs[L].tree[c] \o NewMsgs(c, n[c])]
           e == [cs[L] EXCEPT !.tree = t]
<1>1. L \in 1..Len(cs)
    BY LenProperties
<1>2. cs[L] \in Block
    BY <1>1, ElementOfSeq
<1>3. t \in Tree
    <2>1. \A c \in Conns : cs[L].tree[c] \in Seq(Msg)
        BY <1>2 DEF Block, Tree
    <2>2. \A c \in Conns : NewMsgs(c, n[c]) \in Seq(Msg)
        BY NewMsgsType
    <2> QED
        BY <2>1, <2>2, ConcatProperties DEF Tree
<1>4. e \in Block
    BY <1>2, <1>3 DEF Block
<1>5. AppendToBack(cs, n) = [cs EXCEPT ![L] = e]
    BY DEF AppendToBack
<1> HIDE DEF e
<1> QED
    BY <1>1, <1>4, <1>5, ExceptSeq

(* Closing connections empties their trees and keeps the deque typed and   *)
(* its length unchanged.                                                   *)
LEMMA CloseType ==
    ASSUME NEW cs \in Seq(Block), NEW cl \in SUBSET Conns
    PROVE  LET r == [i \in 1..Len(cs) |->
                        [cs[i] EXCEPT !.tree =
                            [c \in Conns |-> IF c \in cl THEN << >> ELSE @[c]]]]
           IN  r \in Seq(Block) /\ Len(r) = Len(cs)
<1> DEFINE Clear(t) == [c \in Conns |-> IF c \in cl THEN << >> ELSE t[c]]
           r == [i \in 1..Len(cs) |-> [cs[i] EXCEPT !.tree = Clear(cs[i].tree)]]
<1>1. Len(cs) \in Nat
    BY LenProperties
<1>2. ASSUME NEW i \in 1..Len(cs)
      PROVE  [cs[i] EXCEPT !.tree = Clear(cs[i].tree)] \in Block
    <2>1. cs[i] \in Block
        BY ElementOfSeq
    <2>2. << >> \in Seq(Msg)
        BY EmptySeq
    <2>3. Clear(cs[i].tree) \in Tree
        BY <2>1, <2>2 DEF Block, Tree
    <2> HIDE DEF Clear
    <2> QED
        BY <2>1, <2>3 DEF Block
<1>3. r \in [1..Len(cs) -> Block]
    BY <1>2
<1> HIDE DEF r
<1>4. r \in Seq(Block) /\ Len(r) = Len(cs)
    BY <1>1, <1>3, FunIsSeq
<1> QED
    BY <1>4 DEF r, Clear

-----------------------------------------------------------------------------
(* The inductive invariant: type correctness and the bound on the deque.  *)
IInv == TypeOK /\ BoundedBlocks

(* WsConnections::new starts from an empty, hence bounded, deque.          *)
LEMMA InitIInv == Init => IInv
<1> SUFFICES ASSUME Init PROVE IInv
    OBVIOUS
<1>1. << >> \in Seq(Block) /\ Len(<< >>) = 0
    BY EmptySeq
<1>2. RootHash(<< >>) \in Seq(Nat \X Tree)
    BY <1>1, RootHashType
<1>3. [c \in Conns |-> << >>] \in [Conns -> Seq(Nat)]
    BY EmptySeq
<1>4. MaxBlockHeight \in Nat
    BY WsAssumption
<1> QED
    BY <1>1, <1>2, <1>3, <1>4 DEF Init, IInv, TypeOK, BoundedBlocks

(* send_raw keeps the deque typed and bounded.                             *)
LEMMA SendRawIInv ==
    ASSUME IInv, NEW n \in [Conns -> 0..MaxBatch], SendRaw(n)
    PROVE  IInv'
<1> DEFINE b == GetCurrentBlockId
           ens == EnsureBlock(connections, b)
<1>1. now \in Nat
    BY WsAssumption DEF IInv, TypeOK
<1>2. b \in Nat
    BY <1>1, BlockIdNat
<1>3. connections \in Seq(Block) /\ Len(connections) <= MaxBlockHeight
    BY DEF IInv, TypeOK, BoundedBlocks
<1>4. ens \in Seq(Block) /\ Len(ens) \in 1..MaxBlockHeight
    BY <1>2, <1>3, EnsureBlockType
<1>5. sentIn \in [Conns -> Seq(Nat)]
    BY DEF IInv, TypeOK
<1>6. n \in [Conns -> Nat]
    BY WsAssumption
<1>7. connections' = AppendToBack(ens, n)
    BY DEF SendRaw
<1>8. connections' \in Seq(Block) /\ Len(connections') = Len(ens)
    <2> HIDE DEF ens
    <2> QED
        BY <1>4, <1>5, <1>6, <1>7, AppendToBackType
<1>9. certified' \in Seq(Nat \X Tree)
    BY <1>8, RootHashType DEF SendRaw
<1>10. sentIn' \in [Conns -> Seq(Nat)]
    <2>1. ASSUME NEW c \in Conns
          PROVE  sentIn[c] \o [j \in 1..n[c] |-> b] \in Seq(Nat)
        <3>1. [j \in 1..n[c] |-> b] \in Seq(Nat)
            BY <1>2, <1>6, FunIsSeq
        <3> QED
            BY <1>5, <3>1, ConcatProperties
    <2> QED
        BY <2>1 DEF SendRaw
<1>11. blocks' \in Seq(Nat)
    <2>1. blocks \in Seq(Nat)
        BY DEF IInv, TypeOK
    <2> QED
        BY <1>2, <2>1, AppendProperties DEF SendRaw
<1>12. now' \in TimePoints /\ closed' \in [Conns -> Nat]
    BY DEF SendRaw, IInv, TypeOK
<1> QED
    BY <1>4, <1>8, <1>9, <1>10, <1>11, <1>12 DEF IInv, TypeOK, BoundedBlocks

(* close_connections keeps the deque typed and its length unchanged.       *)
LEMMA CloseIInv ==
    ASSUME IInv, NEW cl \in SUBSET Conns, CloseConnections(cl)
    PROVE  IInv'
<1>1. connections \in Seq(Block)
    BY DEF IInv, TypeOK
<1>2. connections' \in Seq(Block) /\ Len(connections') = Len(connections)
    BY <1>1, CloseType DEF CloseConnections
<1>3. certified' \in Seq(Nat \X Tree)
    BY <1>2, RootHashType DEF CloseConnections
<1>4. closed' \in [Conns -> Nat]
    <2>1. \A c \in Conns : Len(sentIn[c]) \in Nat
        BY LenProperties DEF IInv, TypeOK
    <2> QED
        BY <2>1 DEF CloseConnections, IInv, TypeOK
<1>5. UNCHANGED <<now, sentIn, blocks>>
    BY DEF CloseConnections
<1> QED
    BY <1>2, <1>3, <1>4, <1>5 DEF IInv, TypeOK, BoundedBlocks

(* Time passing changes no state of the log.                               *)
LEMMA TickIInv ==
    ASSUME IInv, Tick
    PROVE  IInv'
BY DEF Tick, IInv, TypeOK, BoundedBlocks

LEMMA NextIInv ==
    ASSUME IInv, [Next]_vars
    PROVE  IInv'
<1>1. CASE \E n \in [Conns -> 0..MaxBatch] : SendRaw(n)
    BY <1>1, SendRawIInv
<1>2. CASE \E cl \in SUBSET Conns : cl # {} /\ CloseConnections(cl)
    BY <1>2, CloseIInv
<1>3. CASE Tick
    BY <1>3, TickIInv
<1>4. CASE UNCHANGED vars
    BY <1>4 DEF vars, IInv, TypeOK, BoundedBlocks
<1> QED
    BY <1>1, <1>2, <1>3, <1>4 DEF Next

(* IInv holds in every reachable state.                                    *)
THEOREM WsIInvInvariant == Spec => []IInv
BY InitIInv, NextIInv, PTL DEF Spec

(* The deque of send_raw never grows past MAX_BLOCK_HEIGHT entries, for    *)
(* every MAX_BLOCK_HEIGHT and every sequence of calls and clock values.    *)
THEOREM BlocksBounded == Spec => []BoundedBlocks
BY WsIInvInvariant, PTL DEF IInv

(* Every reachable state of the connection log is well typed.              *)
THEOREM WsTypeCorrect == Spec => []TypeOK
BY WsIInvInvariant, PTL DEF IInv
=============================================================================
