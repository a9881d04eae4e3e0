-------------------------- MODULE MockCallsProofs --------------------------
(***************************************************************************)
(* Proofs about the mock call engine of MockCalls, for every value of the  *)
(* constants that satisfies ConstAssumption.  The invariant IInv (type     *)
(* correctness, the frames' bookkeeping FramesOK, RefundWithinSent and     *)
(* NoResidualCycles) is inductive; the theorems at the end derive that     *)
(* every behaviour of Spec keeps TypeOK, RefundWithinSent and              *)
(* NoResidualCycles.                                                       *)
(***************************************************************************)
EXTENDS MockCalls, SequenceTheorems, TLAPS

(* The numeric bounds of the model are natural numbers.                    *)
LEMMA BoundsNat ==
    /\ MaxU64 \in Nat
    /\ Amounts \subseteq 0..MaxU64
    /\ InitBalances \subseteq 0..MaxU64
    /\ MaxDepth \in Nat /\ MaxCalls \in Nat /\ MaxClosureSteps \in Nat
BY ConstAssumption DEF ConstAssumption

USE BoundsNat

(* The chains the builder may install are sequences of handlers.           *)
LEMMA ChainsSeq == Chains \subseteq Seq(Handler)
BY ConstAssumption DEF ConstAssumption


(* Min2 picks one of its arguments and is bounded by both.                 *)
LEMMA Min2Bound ==
    ASSUME NEW a \in Nat, NEW b \in Nat
    PROVE  /\ Min2(a, b) \in 0..b
           /\ Min2(a, b) <= a
BY DEF Min2

(* The length SubSeq gives a prefix one shorter than a non-empty sequence. *)
LEMMA PredArith ==
    ASSUME NEW n \in Nat, n >= 1
    PROVE  (IF 1 <= n - 1 THEN n - 1 - 1 + 1 ELSE 0) = n - 1
OBVIOUS

(* Popping the last element of a sequence keeps the others in place.      *)
LEMMA PopSeq ==
    ASSUME NEW S, NEW s \in Seq(S), s # << >>
    PROVE  /\ SubSeq(s, 1, Len(s) - 1) \in Seq(S)
           /\ Len(SubSeq(s, 1, Len(s) - 1)) = Len(s) - 1
           /\ \A i \in 1..Len(s) - 1 : SubSeq(s, 1, Len(s) - 1)[i] = s[i]
<1>1. Len(s) \in Nat /\ Len(s) >= 1
    BY EmptySeq
<1>2. \A i \in 1..Len(s) - 1 : s[i] \in S
    BY <1>1, ElementOfSeq
<1>3. SubSeq(s, 1, Len(s) - 1) \in Seq(S)
    BY <1>1, <1>2, SubSeqProperties
<1>4. Len(SubSeq(s, 1, Len(s) - 1)) = Len(s) - 1
    <2> DEFINE n == Len(s)
               t == SubSeq(s, 1, n - 1)
    <2>1. Len(t) = IF 1 <= n - 1 THEN n - 1 - 1 + 1 ELSE 0
        BY <1>1, <1>2, SubSeqProperties
    <2>2. (IF 1 <= n - 1 THEN n - 1 - 1 + 1 ELSE 0) = n - 1
        BY <1>1, PredArith
    <2> HIDE DEF t
    <2> QED
        BY <2>1, <2>2
<1>5. \A i \in 1..Len(s) - 1 : SubSeq(s, 1, Len(s) - 1)[i] = s[i]
    BY <1>1, <1>2, SubSeqProperties
<1> QED
    BY <1>3, <1>4, <1>5
(* The top of a non-empty well-typed stack is a frame.                     *)
LEMMA TopFrame ==
    ASSUME TypeOK, stack # << >>
    PROVE  /\ Len(stack) \in Nat \ {0}
           /\ Top \in Frame
BY EmptySeq, ElementOfSeq DEF TypeOK, Top

(* A throwaway context accepting r of its available cycles: the frame     *)
(* stays a frame, and its cycles stay within what was sent.                *)
LEMMA FrameUpdate ==
    ASSUME NEW f \in Frame, NEW r \in Nat, r <= f.avail,
           f.avail + f.kept <= f.sent
    PROVE  LET g == [f EXCEPT !.avail = @ - r, !.kept = @ + r, !.pc = @ + 1] IN
           /\ g \in Frame
           /\ g.ctx = f.ctx /\ g.sent = f.sent
           /\ g.avail + g.kept <= g.sent
<1> DEFINE g == [f EXCEPT !.avail = @ - r, !.kept = @ + r, !.pc = @ + 1]
<1>1. f.avail \in 0..MaxU64 /\ f.kept \in 0..MaxU64 /\ f.sent \in 0..MaxU64
    BY DEF Frame
<1>2. f.avail - r \in 0..MaxU64
    BY <1>1
<1>3. f.kept + r \in 0..MaxU64
    BY <1>1
<1>4. f.pc + 1 \in Nat \ {0}
    BY DEF Frame
<1>5. g.avail = f.avail - r /\ g.kept = f.kept + r
    BY DEF Frame
<1>6. g \in Frame
    BY <1>2, <1>3, <1>4 DEF Frame
<1>7. g.avail + g.kept <= g.sent
    BY <1>1, <1>5 DEF Frame
<1> QED
    BY <1>6, <1>7 DEF Frame

(* Advancing the program counter of a frame.                              *)
LEMMA FramePc ==
    ASSUME NEW f \in Frame
    PROVE  LET g == [f EXCEPT !.pc = f.pc + 1] IN
           /\ g \in Frame
           /\ g.ctx = f.ctx /\ g.sent = f.sent /\ g.handler = f.handler
           /\ g.avail = f.avail /\ g.kept = f.kept /\ g.pc = f.pc + 1
BY DEF Frame

(* The initial states satisfy the inductive invariant.                     *)
LEMMA InitIInv == Init => IInv
<1> SUFFICES ASSUME Init PROVE IInv
    OBVIOUS
<1>1. handlers \in Seq(Handler)
    BY ChainsSeq DEF Init, Installed
<1>2. canBalance \in [1..Len(handlers) -> 0..MaxU64]
    <2>1. canBalance \in [1..Len(handlers) -> InitBalances \cup {0}]
        BY DEF Init, Installed
    <2>2. InitBalances \cup {0} \subseteq 0..MaxU64
        BY ConstAssumption
    <2> QED
        BY <2>1, <2>2, Zenon
<1>3. canCycles \in [1..Len(handlers) -> 0..MaxU64]
    BY <1>1 DEF Init, Installed
<1>4. stack \in Seq(Frame) /\ calls \in Seq(WatcherCall)
    BY DEF Init, Installed
<1>5. /\ balance \in 0..MaxU64 /\ cycles \in 0..MaxU64
      /\ cyclesRefunded \in 0..MaxU64
    BY ConstAssumption DEF Init, Installed
<1>6. response \in [result : {"none", "ok", "err"}, sent : 0..MaxU64]
    BY DEF Init, Installed
<1>7. TypeOK
    BY <1>1, <1>2, <1>3, <1>4, <1>5, <1>6 DEF Init, Installed, TypeOK, Panics
<1>8. FramesOK /\ RefundWithinSent /\ NoResidualCycles
    BY DEF Init, Installed, FramesOK, RefundWithinSent, NoResidualCycles
<1> QED
    BY <1>7, <1>8 DEF IInv

(* Avail of a frame of the invariant is a u64 amount.                      *)
LEMMA AvailBound ==
    ASSUME IInv, NEW k \in 1..Len(stack)
    PROVE  /\ Avail(stack[k]) \in 0..MaxU64
           /\ Avail(stack[k]) <= stack[k].sent
<1>1. stack[k] \in Frame
    BY ElementOfSeq DEF IInv, TypeOK
<1>2. stack[k].ctx \in 0..Len(handlers) /\ stack[k].avail + stack[k].kept <= stack[k].sent
    BY DEF IInv, FramesOK
<1>3. CASE stack[k].ctx = 0
    BY <1>1, <1>2, <1>3 DEF Avail, Frame
<1>4. CASE stack[k].ctx # 0
    <2>1. canCycles[stack[k].ctx] <= stack[k].sent
        BY <1>4 DEF IInv, FramesOK
    <2>2. canCycles[stack[k].ctx] \in 0..MaxU64
        BY <1>2, <1>4 DEF IInv, TypeOK
    <2> QED
        BY <1>4, <2>1, <2>2 DEF Avail
<1> QED
    BY <1>3, <1>4

(* Replacing the top frame by one with the same context and the same sent *)
(* amount, while Canister contexts only lose cycles, keeps the frames'     *)
(* bookkeeping and NoResidualCycles.                                       *)
LEMMA TopUpdate ==
    ASSUME IInv, stack # << >>, NEW g \in Frame,
           g.ctx = Top.ctx, g.sent = Top.sent, g.avail + g.kept <= g.sent,
           stack' = [stack EXCEPT ![Len(stack)] = g],
           handlers' = handlers, borrowed' = borrowed,
           canCycles' \in [1..Len(handlers) -> 0..MaxU64],
           \A i \in 1..Len(handlers) : canCycles'[i] <= canCycles[i]
    PROVE  /\ stack' \in Seq(Frame)
           /\ Len(stack') = Len(stack)
           /\ FramesOK'
           /\ NoResidualCycles'
<1> DEFINE L == Len(stack)
<1>1. L \in Nat \ {0} /\ Top \in Frame
    BY TopFrame DEF IInv
<1>2. /\ stack' \in Seq(Frame)
      /\ Len(stack') = L
      /\ \A k \in 1..L : stack'[k] = IF k = L THEN g ELSE stack[k]
    BY <1>1, ExceptSeq DEF IInv, TypeOK
<1>3. \A k \in 1..L : stack'[k].ctx = stack[k].ctx /\ stack'[k].sent = stack[k].sent
    BY <1>2 DEF Top
<1>4. FramesOK'
    <2> SUFFICES ASSUME NEW k \in 1..Len(stack')
                 PROVE  /\ stack'[k].ctx \in 0..Len(handlers')
                        /\ stack'[k].avail + stack'[k].kept <= stack'[k].sent
                        /\ stack'[k].ctx # 0 =>
                              /\ stack'[k].ctx \in borrowed'
                              /\ canCycles'[stack'[k].ctx] <= stack'[k].sent
                              /\ \A l \in 1..Len(stack') :
                                    l # k => stack'[l].ctx # stack'[k].ctx
        BY DEF FramesOK
    <2>1. /\ stack[k].ctx \in 0..Len(handlers)
          /\ stack[k].avail + stack[k].kept <= stack[k].sent
          /\ stack[k].ctx # 0 =>
                /\ stack[k].ctx \in borrowed
                /\ canCycles[stack[k].ctx] <= stack[k].sent
                /\ \A l \in 1..L : l # k => stack[l].ctx # stack[k].ctx
        BY <1>2 DEF IInv, FramesOK
    <2>2. stack'[k].avail + stack'[k].kept <= stack'[k].sent
        BY <1>2, <2>1
    <2>3. stack[k].ctx # 0 =>
             /\ canCycles[stack[k].ctx] \in Nat
             /\ canCycles'[stack[k].ctx] \in Nat
             /\ canCycles'[stack[k].ctx] <= canCycles[stack[k].ctx]
        BY <2>1 DEF IInv, TypeOK
    <2>4. stack[k] \in Frame
        BY <1>2, ElementOfSeq DEF IInv, TypeOK
    <2>5. stack[k].sent \in 0..MaxU64
        BY <2>4 DEF Frame
    <2>6. stack[k].ctx # 0 => canCycles'[stack[k].ctx] <= stack[k].sent
        BY <2>1, <2>3, <2>5
    <2>7. k \in 1..L
        BY <1>2
    <2>8. stack'[k].ctx \in 0..Len(handlers')
        BY <1>3, <2>1, <2>7
    <2>9. stack'[k].ctx # 0 => stack'[k].ctx \in borrowed'
        BY <1>3, <2>1, <2>7
    <2>10. stack'[k].ctx # 0 => canCycles'[stack'[k].ctx] <= stack'[k].sent
        BY <1>3, <2>6, <2>7
    <2>11. stack'[k].ctx # 0 =>
              \A l \in 1..Len(stack') : l # k => stack'[l].ctx # stack'[k].ctx
        BY <1>2, <1>3, <2>1, <2>7
    <2> QED
        BY <2>2, <2>8, <2>9, <2>10, <2>11
<1>5. NoResidualCycles'
    BY DEF IInv, NoResidualCycles, TypeOK
<1> QED
    BY <1>2, <1>4, <1>5

(* One msg_cycles_accept by the top frame, whichever of its three outcomes *)
(* it has, keeps the invariant.                                            *)
LEMMA FrameAcceptIInv ==
    ASSUME IInv, stack # << >>, NEW n \in Nat, FrameAccept(n),
           UNCHANGED <<handlers, balance, cycles, cyclesRefunded, replyMode,
                       trapped, calledCaller, calls, borrowed, response>>
    PROVE  IInv'
<1> DEFINE L == Len(stack)
           f == stack[L]
           r == Min2(n, Avail(f))
<1>1. L \in Nat \ {0} /\ f \in Frame
    BY TopFrame DEF IInv, Top
<1>2. Avail(f) \in 0..MaxU64
    BY <1>1, AvailBound
<1>3. r \in Nat /\ r <= Avail(f)
    BY <1>2, Min2Bound
<1>4. f.ctx \in 0..Len(handlers) /\ f.avail + f.kept <= f.sent
    BY <1>1 DEF IInv, FramesOK
<1>7. f.ctx # 0 => canBalance[f.ctx] + r \in Nat
    <2>1. canBalance \in [1..Len(handlers) -> 0..MaxU64]
        BY DEF IInv, TypeOK
    <2>2. f.ctx # 0 => canBalance[f.ctx] \in Nat
        BY <1>4, <2>1, BoundsNat
    <2> QED
        BY <1>3, <2>2
<1>8. RefundWithinSent' /\ TypeOK!1' /\ TypeOK!2' /\ TypeOK!3' /\ TypeOK!4'
      /\ TypeOK!5' /\ TypeOK!6' /\ TypeOK!9' /\ TypeOK!11'
    BY DEF IInv, RefundWithinSent, TypeOK
<1>9. CASE f.ctx = 0
    <2> DEFINE g == [f EXCEPT !.avail = @ - r, !.kept = @ + r, !.pc = @ + 1]
    <2>1. stack' = [stack EXCEPT ![L] = g] /\ UNCHANGED <<canCycles, canBalance, panicked>>
        BY <1>9 DEF FrameAccept, Top
    <2>2. r <= f.avail
        BY <1>3, <1>9 DEF Avail
    <2>5. g \in Frame /\ g.ctx = f.ctx /\ g.sent = f.sent
          /\ g.avail + g.kept <= g.sent
        BY <1>1, <1>3, <1>4, <2>2, FrameUpdate
    <2>6. canCycles' \in [1..Len(handlers) -> 0..MaxU64]
          /\ \A i \in 1..Len(handlers) : canCycles'[i] <= canCycles[i]
        <3>1. canCycles \in [1..Len(handlers) -> 0..MaxU64]
            BY DEF IInv, TypeOK
        <3> QED
            BY <2>1, <3>1
    <2>7. /\ stack' \in Seq(Frame) /\ Len(stack') = Len(stack)
          /\ FramesOK' /\ NoResidualCycles'
        BY <2>1, <2>5, <2>6, TopUpdate DEF Top
    <2> QED
        BY <1>8, <2>1, <2>7 DEF IInv, TypeOK
<1>10. CASE f.ctx # 0 /\ canBalance[f.ctx] + r > MaxU64
    <2>1. panicked' = "overflow" /\ UNCHANGED <<stack, canCycles, canBalance>>
        BY <1>7, <1>10 DEF FrameAccept, Top
    <2> QED
        BY <1>8, <2>1 DEF IInv, TypeOK, Panics, FramesOK, NoResidualCycles
<1>11. CASE f.ctx # 0 /\ canBalance[f.ctx] + r <= MaxU64
    <2> DEFINE g == [f EXCEPT !.pc = @ + 1]
    <2>1. /\ canCycles' = [canCycles EXCEPT ![f.ctx] = @ - r]
          /\ canBalance' = [canBalance EXCEPT ![f.ctx] = @ + r]
          /\ stack' = [stack EXCEPT ![L] = g]
          /\ UNCHANGED panicked
        BY <1>7, <1>11 DEF FrameAccept, Top
    <2>2. canCycles[f.ctx] = Avail(f)
        BY <1>11 DEF Avail
    <2>3. canCycles[f.ctx] - r \in 0..MaxU64
        BY <1>2, <1>3, <2>2
    <2>4. canBalance[f.ctx] + r \in 0..MaxU64
        BY <1>7, <1>11
    <2>5. canCycles' \in [1..Len(handlers) -> 0..MaxU64]
        BY <1>4, <1>11, <2>1, <2>3 DEF IInv, TypeOK
    <2>6. canBalance' \in [1..Len(handlers) -> 0..MaxU64]
        BY <1>4, <1>11, <2>1, <2>4 DEF IInv, TypeOK
    <2>7. \A i \in 1..Len(handlers) : canCycles'[i] <= canCycles[i]
        <3> SUFFICES ASSUME NEW i \in 1..Len(handlers)
                     PROVE  canCycles'[i] <= canCycles[i]
            OBVIOUS
        <3>1. canCycles[i] \in Nat
            BY DEF IInv, TypeOK
        <3>2. CASE i = f.ctx
            BY <1>3, <2>1, <2>2, <3>1, <3>2
        <3>3. CASE i # f.ctx
            BY <2>1, <3>1, <3>3
        <3> QED
            BY <3>2, <3>3
    <2>8. g \in Frame /\ g.ctx = f.ctx /\ g.sent = f.sent /\ g.avail = f.avail
          /\ g.kept = f.kept
        BY <1>1, FramePc
    <2>9. /\ stack' \in Seq(Frame) /\ Len(stack') = Len(stack)
          /\ FramesOK' /\ NoResidualCycles'
        BY <1>4, <2>1, <2>5, <2>7, <2>8, TopUpdate DEF Top
    <2> QED
        BY <1>8, <2>1, <2>5, <2>6, <2>9 DEF IInv, TypeOK
<1> QED
    BY <1>4, <1>7, <1>9, <1>10, <1>11

(* A Method atom keeps the invariant.                                      *)
LEMMA MethodStepIInv ==
    ASSUME IInv, MethodStep
    PROVE  IInv'
<1> DEFINE f == Top
           at == f.handler.atoms[f.pc]
<1>1. stack # << >> /\ f \in Frame
    BY TopFrame DEF MethodStep, IInv
<1>2. f.handler \in Leaf /\ f.pc \in 1..Len(f.handler.atoms)
    BY <1>1 DEF MethodStep, Frame
<1>3. at \in Atom
    BY <1>2, ElementOfSeq DEF Leaf
<1>4. Avail(f) \in 0..MaxU64
    BY <1>1, AvailBound DEF Top
<1>5. UNCHANGED <<handlers, balance, cycles, cyclesRefunded, replyMode,
                  trapped, calledCaller, calls, borrowed, response>>
    BY DEF MethodStep
<1>6. CASE at.op = "all" /\ FrameAccept(MaxU64)
    BY <1>1, <1>5, <1>6, FrameAcceptIInv
<1>7. CASE at.op = "consume" /\ FrameAccept(at.n)
    <2>1. at.n \in Nat
        BY <1>3, <1>7 DEF Atom
    <2> QED
        BY <1>1, <1>5, <1>7, <2>1, FrameAcceptIInv
<1>8. CASE /\ at.op = "refund" /\ at.n > Avail(f)
           /\ panicked' = "over_refund"
           /\ UNCHANGED <<stack, canCycles, canBalance>>
    BY <1>5, <1>8 DEF IInv, TypeOK, Panics, FramesOK, RefundWithinSent,
                      NoResidualCycles
<1>9. CASE at.op = "refund" /\ at.n <= Avail(f) /\ FrameAccept(Avail(f) - at.n)
    <2>1. at.n \in Nat
        BY <1>3, <1>9 DEF Atom
    <2>2. Avail(f) - at.n \in Nat
        BY <1>4, <1>9, <2>1
    <2> QED
        BY <1>1, <1>5, <1>9, <2>2, FrameAcceptIInv
<1> QED
    BY <1>6, <1>7, <1>8, <1>9 DEF MethodStep

(* A closure's msg_cycles_accept keeps the invariant.                      *)
LEMMA ClosureAcceptIInv ==
    ASSUME IInv, NEW n \in Amounts, ClosureAccept(n)
    PROVE  IInv'
BY FrameAcceptIInv DEF ClosureAccept

(* The root context's msg_cycles_accept keeps the invariant.               *)
LEMMA RootAcceptIInv ==
    ASSUME IInv, NEW n \in Amounts, RootAccept(n)
    PROVE  IInv'
<1> DEFINE r == Min2(n, cycles)
<1>0. n \in Nat /\ cycles \in 0..MaxU64 /\ balance \in 0..MaxU64
    BY DEF IInv, TypeOK
<1>1. r \in 0..cycles /\ cycles \in 0..MaxU64 /\ balance \in 0..MaxU64
    BY <1>0, Min2Bound
<1>2. UNCHANGED <<handlers, cyclesRefunded, replyMode, trapped, calledCaller,
                  calls, canBalance, canCycles, borrowed, stack, response>>
    BY DEF RootAccept
<1>3. CASE balance + r > MaxU64 /\ panicked' = "overflow"
           /\ UNCHANGED <<balance, cycles>>
    BY <1>2, <1>3 DEF IInv, TypeOK, Panics, FramesOK, RefundWithinSent,
                      NoResidualCycles
<1>4. CASE balance + r <= MaxU64 /\ cycles' = cycles - r
           /\ balance' = balance + r /\ UNCHANGED panicked
    <2>1. cycles' \in 0..MaxU64 /\ balance' \in 0..MaxU64
        BY <1>1, <1>4
    <2> QED
        BY <1>2, <1>4, <2>1 DEF IInv, TypeOK, FramesOK, RefundWithinSent,
                                 NoResidualCycles
<1> QED
    BY <1>1, <1>3, <1>4 DEF RootAccept

(* The root operations that touch only flags, the watcher or the ledger    *)
(* scalars keep the invariant.                                             *)
LEMMA RootOpsIInv ==
    ASSUME IInv,
           \/ Caller \/ Trap \/ CallStateReset \/ Watch
           \/ \E b \in InitBalances : UpdateBalance(b)
           \/ \E n \in Amounts : UpdateMsgCycles(n)
    PROVE  IInv'
<1>1. CASE Caller
    BY <1>1 DEF Caller, IInv, TypeOK, Panics, FramesOK, RefundWithinSent,
                NoResidualCycles
<1>2. CASE Trap
    BY <1>2 DEF Trap, IInv, TypeOK, Panics, FramesOK, RefundWithinSent,
                NoResidualCycles
<1>3. CASE CallStateReset
    BY <1>3 DEF CallStateReset, IInv, TypeOK, FramesOK, RefundWithinSent,
                NoResidualCycles
<1>4. CASE Watch
    <2>1. calls' \in Seq(WatcherCall) /\ RefundWithinSent'
        BY <1>4, EmptySeq DEF Watch, RefundWithinSent
    <2> QED
        BY <1>4, <2>1 DEF Watch, IInv, TypeOK, FramesOK, NoResidualCycles
<1>5. CASE \E b \in InitBalances : UpdateBalance(b)
    BY <1>5 DEF UpdateBalance, IInv, TypeOK, FramesOK, RefundWithinSent,
                NoResidualCycles
<1>6. CASE \E n \in Amounts : UpdateMsgCycles(n)
    BY <1>6 DEF UpdateMsgCycles, IInv, TypeOK, FramesOK, RefundWithinSent,
                NoResidualCycles
<1> QED
    BY <1>1, <1>2, <1>3, <1>4, <1>5, <1>6

(* Injecting a fresh context establishes the invariant, as Init does.      *)
LEMMA InjectIInv ==
    ASSUME Inject
    PROVE  IInv'
<1>1. handlers' \in Seq(Handler)
    BY ChainsSeq DEF Inject, Installed
<1>2. canBalance' \in [1..Len(handlers') -> 0..MaxU64]
    <2>1. canBalance' \in [1..Len(handlers') -> InitBalances \cup {0}]
        BY DEF Inject, Installed
    <2>2. InitBalances \cup {0} \subseteq 0..MaxU64
        OBVIOUS
    <2> QED
        BY <2>1, <2>2, Zenon
<1>3. canCycles' \in [1..Len(handlers') -> 0..MaxU64]
    BY <1>1 DEF Inject, Installed
<1>4. stack' \in Seq(Frame) /\ calls' \in Seq(WatcherCall)
    BY DEF Inject, Installed
<1>5. /\ balance' \in 0..MaxU64 /\ cycles' \in 0..MaxU64
      /\ cyclesRefunded' \in 0..MaxU64
    BY DEF Inject, Installed
<1>6. response' \in [result : {"none", "ok", "err"}, sent : 0..MaxU64]
    BY DEF Inject, Installed
<1>7. TypeOK'
    BY <1>1, <1>2, <1>3, <1>4, <1>5, <1>6 DEF Inject, Installed, TypeOK, Panics
<1>8. FramesOK' /\ RefundWithinSent' /\ NoResidualCycles'
    BY DEF Inject, Installed, FramesOK, RefundWithinSent, NoResidualCycles
<1> QED
    BY <1>7, <1>8 DEF IInv

(* The top frame returning -- its Canister context released, the refund    *)
(* credited and recorded -- keeps the invariant.                           *)
LEMMA ReturnIInv ==
    ASSUME IInv, NEW res \in {"ok", "err"}, Return(res)
    PROVE  IInv'
<1> DEFINE L == Len(stack)
           f == stack[L]
           refund == Avail(f)
<1>1. stack # << >> /\ L \in Nat \ {0} /\ f \in Frame
    BY TopFrame DEF Return, IInv, Top
<1>2. refund \in 0..MaxU64 /\ refund <= f.sent
    BY <1>1, AvailBound
<1>3. /\ stack' = SubSeq(stack, 1, L - 1)
      /\ ReleaseContext(f)
      /\ Settle(f, refund, res)
      /\ UNCHANGED <<handlers, cycles, replyMode, trapped, calledCaller,
                     canBalance>>
    BY DEF Return, Top
<1>4. /\ stack' \in Seq(Frame)
      /\ Len(stack') = L - 1
      /\ \A k \in 1..L - 1 : stack'[k] = stack[k]
    BY <1>1, <1>3, PopSeq DEF IInv, TypeOK
<1>5. f.ctx \in 0..Len(handlers)
      /\ \A k \in 1..L - 1 : f.ctx # 0 => stack[k].ctx # f.ctx
    BY <1>1 DEF IInv, FramesOK
<1>6. /\ canCycles' \in [1..Len(handlers) -> 0..MaxU64]
      /\ borrowed' \subseteq 1..Len(handlers)
      /\ \A i \in 1..Len(handlers) :
            i # f.ctx => canCycles'[i] = canCycles[i]
      /\ \A i \in borrowed : i # f.ctx => i \in borrowed'
      /\ \A i \in 1..Len(handlers) : i \notin borrowed' => canCycles'[i] = 0
    <2>1. CASE f.ctx = 0
        BY <1>3, <2>1 DEF ReleaseContext, IInv, TypeOK, NoResidualCycles
    <2>2. CASE f.ctx # 0
        <3>1. canCycles' = [canCycles EXCEPT ![f.ctx] = 0]
              /\ borrowed' = borrowed \ {f.ctx}
            BY <1>3, <2>2 DEF ReleaseContext
        <3>2. f.ctx \in 1..Len(handlers)
            BY <1>5, <2>2
        <3>3. canCycles' \in [1..Len(handlers) -> 0..MaxU64]
            BY <3>1, <3>2 DEF IInv, TypeOK
        <3>4. \A i \in 1..Len(handlers) : i # f.ctx => canCycles'[i] = canCycles[i]
            BY <3>1, <3>2 DEF IInv, TypeOK
        <3>5. \A i \in 1..Len(handlers) : i \notin borrowed' => canCycles'[i] = 0
            BY <3>1, <3>2, <3>4 DEF IInv, TypeOK, NoResidualCycles
        <3> QED
            BY <3>1, <3>3, <3>4, <3>5 DEF IInv, TypeOK
    <2> QED
        BY <2>1, <2>2
<1>7. /\ cyclesRefunded' \in 0..MaxU64
      /\ balance' \in 0..MaxU64
      /\ calls' \in Seq(WatcherCall)
      /\ response' \in [result : {"none", "ok", "err"}, sent : 0..MaxU64]
      /\ panicked' \in Panics
      /\ RefundWithinSent'
    <2>1. f.target \in Principals /\ f.method \in Methods /\ f.sent \in 0..MaxU64
        BY <1>1 DEF Frame
    <2>4. balance + refund \in Nat
        BY <1>2 DEF IInv, TypeOK
    <2>2. CASE balance + refund > MaxU64
        <3>1. cyclesRefunded' = refund /\ panicked' = "overflow"
              /\ UNCHANGED <<balance, calls, response>>
            BY <1>3, <2>2, <2>4 DEF Settle
        <3> QED
            BY <1>2, <3>1 DEF IInv, TypeOK, Panics, RefundWithinSent
    <2>3. CASE balance + refund <= MaxU64
        <3> DEFINE rec == [canister_id |-> f.target, method_name |-> f.method,
                           cycles_sent |-> f.sent, cycles_refunded |-> refund]
        <3>1. /\ cyclesRefunded' = refund /\ balance' = balance + refund
              /\ calls' = Append(calls, rec)
              /\ response' = [result |-> res, sent |-> f.sent]
              /\ UNCHANGED panicked
            BY <1>3, <2>3, <2>4 DEF Settle
        <3>2. rec \in WatcherCall /\ rec.cycles_refunded <= rec.cycles_sent
            BY <1>2, <2>1 DEF WatcherCall
        <3>3. /\ calls' \in Seq(WatcherCall)
              /\ Len(calls') = Len(calls) + 1
              /\ \A k \in 1..Len(calls) : calls'[k] = calls[k]
              /\ calls'[Len(calls) + 1] = rec
            BY <3>1, <3>2, AppendProperties DEF IInv, TypeOK
        <3>4. RefundWithinSent'
            <4> SUFFICES ASSUME NEW k \in 1..Len(calls')
                         PROVE  calls'[k].cycles_refunded <= calls'[k].cycles_sent
                BY DEF RefundWithinSent
            <4>1. Len(calls) \in Nat
                BY DEF IInv, TypeOK
            <4>2. CASE k = Len(calls) + 1
                BY <3>2, <3>3, <4>2
            <4>3. CASE k \in 1..Len(calls)
                BY <3>3, <4>3 DEF IInv, RefundWithinSent
            <4> QED
                BY <3>3, <4>1, <4>2, <4>3
        <3>5. balance' \in 0..MaxU64
            BY <1>2, <2>3, <3>1 DEF IInv, TypeOK
        <3> QED
            BY <1>2, <2>1, <3>1, <3>3, <3>4, <3>5 DEF IInv, TypeOK
    <2> QED
        BY <2>2, <2>3, <2>4
<1>8. TypeOK'
    BY <1>3, <1>4, <1>6, <1>7 DEF IInv, TypeOK
<1>9. FramesOK'
    <2> SUFFICES ASSUME NEW k \in 1..Len(stack')
                 PROVE  /\ stack'[k].ctx \in 0..Len(handlers')
                        /\ stack'[k].avail + stack'[k].kept <= stack'[k].sent
                        /\ stack'[k].ctx # 0 =>
                              /\ stack'[k].ctx \in borrowed'
                              /\ canCycles'[stack'[k].ctx] <= stack'[k].sent
                              /\ \A l \in 1..Len(stack') :
                                    l # k => stack'[l].ctx # stack'[k].ctx
        BY DEF FramesOK
    <2>1. k \in 1..L - 1 /\ stack'[k] = stack[k]
        BY <1>1, <1>4
    <2>2. /\ stack[k].ctx \in 0..Len(handlers)
          /\ stack[k].avail + stack[k].kept <= stack[k].sent
          /\ stack[k].ctx # 0 =>
                /\ stack[k].ctx \in borrowed
                /\ canCycles[stack[k].ctx] <= stack[k].sent
                /\ \A l \in 1..L : l # k => stack[l].ctx # stack[k].ctx
        BY <2>1 DEF IInv, FramesOK
    <2>3. stack[k].ctx # 0 => stack[k].ctx # f.ctx
        BY <1>1, <2>1, <2>2
    <2>4. stack[k].ctx # 0 =>
            /\ stack[k].ctx \in borrowed'
            /\ canCycles'[stack[k].ctx] = canCycles[stack[k].ctx]
        BY <1>6, <2>2, <2>3
    <2>5. \A l \in 1..Len(stack') : stack'[l] = stack[l]
        BY <1>1, <1>4
    <2> QED
        BY <1>1, <1>3, <1>4, <2>1, <2>2, <2>4, <2>5
<1>10. NoResidualCycles'
    BY <1>3, <1>6 DEF NoResidualCycles
<1> QED
    BY <1>7, <1>8, <1>9, <1>10 DEF IInv

(* A frame a call starts with is a frame whose cycles are what was sent.   *)
LEMMA NewFrameType ==
    ASSUME NEW h \in Leaf, NEW ctx \in Nat, NEW t \in Principals,
           NEW m \in Methods, NEW c \in 0..MaxU64
    PROVE  LET fr == NewFrame(h, ctx, t, m, c) IN
           /\ fr \in Frame
           /\ fr.ctx = ctx /\ fr.sent = c
           /\ fr.avail + fr.kept <= fr.sent
BY DEF NewFrame, Frame

(* Pushing a frame -- after advancing the closure frame that made the call *)
(* -- keeps the frames' bookkeeping and NoResidualCycles, when a Canister  *)
(* context it runs in was free and now is borrowed, holding at most what   *)
(* was sent, and no other context changed.                                 *)
LEMMA PushIInv ==
    ASSUME IInv, NEW fr \in Frame,
           fr.avail + fr.kept <= fr.sent, fr.ctx \in 0..Len(handlers),
           fr.ctx # 0 => fr.ctx \notin borrowed /\ canCycles'[fr.ctx] <= fr.sent,
           borrowed' = IF fr.ctx = 0 THEN borrowed ELSE borrowed \cup {fr.ctx},
           canCycles' \in [1..Len(handlers) -> 0..MaxU64],
           \A i \in 1..Len(handlers) : i # fr.ctx => canCycles'[i] = canCycles[i],
           handlers' = handlers,
           PushFrame(fr)
    PROVE  /\ stack' \in Seq(Frame)
           /\ FramesOK'
           /\ NoResidualCycles'
<1> DEFINE L == Len(stack)
           mid == IF stack = << >> THEN stack
                  ELSE [stack EXCEPT ![L].pc = @ + 1]
<1>1. stack \in Seq(Frame) /\ L \in Nat
    BY DEF IInv, TypeOK
<1>2. /\ mid \in Seq(Frame)
      /\ Len(mid) = L
      /\ \A k \in 1..L : /\ mid[k].ctx = stack[k].ctx
                         /\ mid[k].sent = stack[k].sent
                         /\ mid[k].avail = stack[k].avail
                         /\ mid[k].kept = stack[k].kept
    <2>1. CASE stack = << >>
        BY <1>1, <2>1
    <2>2. CASE stack # << >>
        <3> DEFINE g == [stack[L] EXCEPT !.pc = @ + 1]
        <3>1. L \in Nat \ {0} /\ stack[L] \in Frame
            BY <2>2, TopFrame DEF IInv, Top
        <3>2. g \in Frame /\ g.ctx = stack[L].ctx /\ g.sent = stack[L].sent
              /\ g.avail = stack[L].avail /\ g.kept = stack[L].kept
            BY <3>1, FramePc
        <3>3. mid = [stack EXCEPT ![L] = g]
            BY <2>2
        <3> HIDE DEF mid
        <3>4. /\ mid \in Seq(Frame) /\ Len(mid) = L
              /\ \A k \in 1..L : mid[k] = IF k = L THEN g ELSE stack[k]
            BY <1>1, <3>1, <3>2, <3>3, ExceptSeq
        <3> QED
            BY <3>2, <3>4
    <2> QED
        BY <2>1, <2>2
<1> HIDE DEF mid
<1>3. /\ stack' \in Seq(Frame)
      /\ Len(stack') = L + 1
      /\ \A k \in 1..L : stack'[k] = mid[k]
      /\ stack'[L + 1] = fr
    <2>1. stack' = Append(mid, fr)
        BY DEF PushFrame, mid
    <2> QED
        BY <1>2, <2>1, AppendProperties
<1>4. \A k \in 1..L : stack[k].ctx # 0 =>
          /\ stack[k].ctx \in borrowed
          /\ canCycles[stack[k].ctx] <= stack[k].sent
          /\ \A l \in 1..L : l # k => stack[l].ctx # stack[k].ctx
    BY DEF IInv, FramesOK
<1>5. \A k \in 1..L : stack[k].ctx # 0 => stack[k].ctx # fr.ctx
    BY <1>4
<1>6. FramesOK'
    <2> SUFFICES ASSUME NEW k \in 1..Len(stack')
                 PROVE  /\ stack'[k].ctx \in 0..Len(handlers')
                        /\ stack'[k].avail + stack'[k].kept <= stack'[k].sent
                        /\ stack'[k].ctx # 0 =>
                              /\ stack'[k].ctx \in borrowed'
                              /\ canCycles'[stack'[k].ctx] <= stack'[k].sent
                              /\ \A l \in 1..Len(stack') :
                                    l # k => stack'[l].ctx # stack'[k].ctx
        BY DEF FramesOK
    <2>1. \A l \in 1..L : stack'[l].ctx = stack[l].ctx
        BY <1>2, <1>3
    <2>2. CASE k = L + 1
        <3>1. stack'[k] = fr
            BY <1>3, <2>2
        <3>2. fr.ctx # 0 => \A l \in 1..L : stack[l].ctx # fr.ctx
            BY <1>4
        <3>3. fr.ctx # 0 => fr.ctx \in borrowed'
            OBVIOUS
        <3>4. \A l \in 1..Len(stack') : l # k => l \in 1..L
            BY <1>1, <1>3, <2>2
        <3>5. fr.ctx # 0 => \A l \in 1..Len(stack') : l # k => stack'[l].ctx # fr.ctx
            BY <2>1, <3>2, <3>4
        <3> QED
            BY <3>1, <3>3, <3>5
    <2>3. CASE k \in 1..L
        <3>1. /\ stack[k].ctx \in 0..Len(handlers)
              /\ stack[k].avail + stack[k].kept <= stack[k].sent
            BY <2>3 DEF IInv, FramesOK
        <3>2. stack'[k].ctx = stack[k].ctx /\ stack'[k].sent = stack[k].sent
              /\ stack'[k].avail = stack[k].avail /\ stack'[k].kept = stack[k].kept
            BY <1>2, <1>3, <2>3
        <3>3. stack[k].ctx # 0 =>
                /\ stack[k].ctx \in borrowed'
                /\ canCycles'[stack[k].ctx] = canCycles[stack[k].ctx]
            BY <1>4, <1>5, <2>3, <3>1
        <3>4. stack[k].ctx # 0 =>
                \A l \in 1..Len(stack') : l # k => stack'[l].ctx # stack[k].ctx
            BY <1>1, <1>3, <1>4, <1>5, <2>1, <2>3
        <3> QED
            BY <1>4, <2>3, <3>1, <3>2, <3>3, <3>4
    <2>4. k = L + 1 \/ k \in 1..L
        <3>1. k \in 1..(L + 1) /\ L \in Nat
            BY <1>1, <1>3
        <3> HIDE DEF L
        <3> QED
            BY <3>1
    <2> QED
        BY <2>2, <2>3, <2>4
<1>7. NoResidualCycles'
    BY DEF IInv, NoResidualCycles
<1> QED
    BY <1>3, <1>6, <1>7

(* The handler a Canister routes an accepted call to is a Method or a      *)
(* RawHandler.                                                             *)
LEMMA RouteLeaf ==
    ASSUME NEW h \in CanisterHandler, NEW t, NEW m \in Methods, Accept(h, t, m)
    PROVE  CanisterRoute(h, m) \in Leaf
BY DEF CanisterHandler, Accept, CanisterRoute

(* A handler of the chain is a leaf handler unless it is a Canister.       *)
LEMMA HandlerKinds ==
    ASSUME IInv, NEW i \in 1..Len(handlers)
    PROVE  /\ handlers[i].kind # "canister" => handlers[i] \in Leaf
           /\ handlers[i].kind = "canister" => handlers[i] \in CanisterHandler
<1>1. handlers[i] \in Handler
    BY ElementOfSeq DEF IInv, TypeOK
<1> QED
    BY <1>1 DEF Handler, Leaf, CanisterHandler

(* call_raw, by the test or by a closure, keeps the invariant: the cycles  *)
(* it reserves come out of the balance, and the frame it starts runs in a  *)
(* throwaway context or in the context of a Canister that was free.        *)
LEMMA CallRawIInv ==
    ASSUME IInv, NEW t \in Principals, NEW m \in Methods, NEW a \in Args,
           NEW c \in Amounts, CallRaw(t, m, a, c)
    PROVE  IInv'
<1>1. UNCHANGED <<handlers, cycles, cyclesRefunded, trapped, calledCaller,
                  calls, canBalance, response>>
    BY DEF CallRaw
<1>2. c \in 0..MaxU64 /\ balance \in 0..MaxU64
    BY DEF IInv, TypeOK
<1>5. Len(handlers) \in Nat
    BY LenProperties DEF IInv, TypeOK
<1>3. CASE c > balance /\ panicked' = "insufficient_cycles"
           /\ UNCHANGED <<balance, replyMode, stack, canCycles, borrowed>>
    BY <1>1, <1>3 DEF IInv, TypeOK, Panics, FramesOK, RefundWithinSent,
                      NoResidualCycles
<1>4. CASE /\ c <= balance
           /\ balance' = balance - c
           /\ replyMode' = TRUE
           /\ \E i \in 0..Len(handlers) :
                 FirstAccepting(i, t, m) /\ Dispatch(i, t, m, a, c)
    <2>1. PICK i \in 0..Len(handlers) :
                 FirstAccepting(i, t, m) /\ Dispatch(i, t, m, a, c)
        BY <1>4
    <2>2. balance' \in 0..MaxU64 /\ replyMode' \in BOOLEAN
        BY <1>2, <1>4
    <2> SUFFICES /\ stack' \in Seq(Frame)
                 /\ canCycles' \in [1..Len(handlers) -> 0..MaxU64]
                 /\ borrowed' \subseteq 1..Len(handlers)
                 /\ panicked' \in Panics
                 /\ FramesOK' /\ NoResidualCycles'
        BY <1>1, <2>2 DEF IInv, TypeOK, RefundWithinSent
    <2>3. CASE i = 0 /\ panicked' = "no_handler"
               /\ UNCHANGED <<stack, canCycles, borrowed>>
        <3>1. panicked' \in Panics
            BY <2>3 DEF Panics
        <3>2. FramesOK' /\ NoResidualCycles'
            BY <1>1, <2>3 DEF IInv, FramesOK, NoResidualCycles
        <3> QED
            BY <2>3, <3>1, <3>2 DEF IInv, TypeOK
    <2>4. CASE /\ i # 0 /\ handlers[i].kind # "canister"
               /\ Perform(handlers[i], 0, t, m, a, c)
               /\ UNCHANGED <<canCycles, borrowed>>
        <3>0. i \in 1..Len(handlers) /\ handlers[i].kind # "canister"
            BY <1>5, <2>4
        <3>1. handlers[i] \in Leaf
            BY <3>0, HandlerKinds
        <3>2. CASE ~ArgsOk(handlers[i], a) /\ panicked' = "args_mismatch"
                   /\ UNCHANGED stack
            <4>1. panicked' \in Panics
                BY <3>2 DEF Panics
            <4>2. FramesOK' /\ NoResidualCycles'
                BY <1>1, <2>4, <3>2 DEF IInv, FramesOK, NoResidualCycles
            <4> QED
                BY <2>4, <3>2, <4>1, <4>2 DEF IInv, TypeOK
        <3>3. CASE ArgsOk(handlers[i], a)
                   /\ PushFrame(NewFrame(handlers[i], 0, t, m, c))
                   /\ UNCHANGED panicked
            <4> DEFINE fr == NewFrame(handlers[i], 0, t, m, c)
            <4>1. fr \in Frame /\ fr.ctx = 0 /\ fr.avail + fr.kept <= fr.sent
                BY <1>2, <3>1, NewFrameType
            <4>3. /\ fr.ctx \in 0..Len(handlers)
                  /\ (fr.ctx # 0 => fr.ctx \notin borrowed /\ canCycles'[fr.ctx] <= fr.sent)
                  /\ borrowed' = IF fr.ctx = 0 THEN borrowed ELSE borrowed \cup {fr.ctx}
                  /\ canCycles' \in [1..Len(handlers) -> 0..MaxU64]
                  /\ \A j \in 1..Len(handlers) : j # fr.ctx => canCycles'[j] = canCycles[j]
                  /\ handlers' = handlers
                  /\ PushFrame(fr)
                <5>1. canCycles \in [1..Len(handlers) -> 0..MaxU64]
                    BY DEF IInv, TypeOK
                <5>2. fr.ctx = 0 /\ borrowed' = borrowed /\ canCycles' = canCycles
                    BY <2>4, <4>1
                <5>3. handlers' = handlers /\ PushFrame(fr)
                    BY <1>1, <3>3
                <5> QED
                    BY <5>1, <5>2, <5>3
            <4> HIDE DEF fr
            <4>2. stack' \in Seq(Frame) /\ FramesOK' /\ NoResidualCycles'
                BY <4>1, <4>3, PushIInv
            <4> QED
                BY <2>4, <3>3, <4>2 DEF IInv, TypeOK
        <3> QED
            BY <2>4, <3>2, <3>3 DEF Perform
    <2>5. CASE /\ i # 0 /\ handlers[i].kind = "canister" /\ i \in borrowed
               /\ panicked' = "already_borrowed"
               /\ UNCHANGED <<stack, canCycles, borrowed>>
        <3>1. panicked' \in Panics
            BY <2>5 DEF Panics
        <3>2. FramesOK' /\ NoResidualCycles'
            BY <1>1, <2>5 DEF IInv, FramesOK, NoResidualCycles
        <3> QED
            BY <2>5, <3>1, <3>2 DEF IInv, TypeOK
    <2>6. CASE /\ i # 0 /\ handlers[i].kind = "canister" /\ i \notin borrowed
               /\ borrowed' = borrowed \cup {i}
               /\ canCycles' = [canCycles EXCEPT ![i] = c]
               /\ Perform(CanisterRoute(handlers[i], m), i, t, m, a, c)
        <3> DEFINE h == CanisterRoute(handlers[i], m)
        <3>1. h \in Leaf
            <4>1. handlers[i] \in CanisterHandler
                BY <2>6, HandlerKinds
            <4>2. Accept(handlers[i], t, m)
                BY <2>1, <2>6 DEF FirstAccepting
            <4> QED
                BY <4>1, <4>2, RouteLeaf
        <3>2. /\ canCycles' \in [1..Len(handlers) -> 0..MaxU64]
              /\ canCycles'[i] = c
              /\ \A j \in 1..Len(handlers) : j # i => canCycles'[j] = canCycles[j]
            <4>1. canCycles \in [1..Len(handlers) -> 0..MaxU64]
                BY DEF IInv, TypeOK
            <4>2. i \in 1..Len(handlers) /\ c \in 0..MaxU64
                BY <1>2, <2>1, <2>6
            <4> QED
                BY <2>6, <4>1, <4>2
        <3>7. i \in 1..Len(handlers)
            BY <2>1, <2>6
        <3>3. borrowed' \subseteq 1..Len(handlers)
            BY <2>6, <3>7 DEF IInv, TypeOK
        <3>4. NoResidualCycles'
            BY <1>1, <2>6, <3>2 DEF IInv, NoResidualCycles
        <3>5. CASE ~ArgsOk(h, a) /\ panicked' = "args_mismatch"
                   /\ UNCHANGED stack
            <4>1. FramesOK'
                <5> SUFFICES ASSUME NEW k \in 1..Len(stack), stack[k].ctx # 0
                             PROVE  /\ stack[k].ctx \in borrowed'
                                    /\ canCycles'[stack[k].ctx] <= stack[k].sent
                    <6>1. FramesOK
                        BY DEF IInv
                    <6>2. UNCHANGED <<handlers, stack>>
                        BY <1>1, <3>5
                    <6> QED
                        BY <6>1, <6>2 DEF FramesOK
                <5>1. stack[k].ctx \in borrowed /\ stack[k].ctx \in 1..Len(handlers)
                      /\ canCycles[stack[k].ctx] <= stack[k].sent
                    <6>1. FramesOK
                        BY DEF IInv
                    <6> QED
                        BY <1>5, <6>1 DEF FramesOK
                <5>2. stack[k].ctx # i
                    BY <2>6, <5>1
                <5>3. canCycles'[stack[k].ctx] = canCycles[stack[k].ctx]
                    BY <3>2, <5>1, <5>2
                <5>4. stack[k].ctx \in borrowed'
                    BY <2>6, <5>1
                <5> QED
                    BY <5>1, <5>3, <5>4
            <4> QED
                BY <3>2, <3>3, <3>4, <3>5, <4>1 DEF IInv, TypeOK, Panics
        <3>6. CASE ArgsOk(h, a) /\ PushFrame(NewFrame(h, i, t, m, c))
                   /\ UNCHANGED panicked
            <4> DEFINE fr == NewFrame(h, i, t, m, c)
            <4>1. fr \in Frame /\ fr.ctx = i /\ fr.sent = c
                  /\ fr.avail + fr.kept <= fr.sent
                BY <1>2, <3>1, NewFrameType
            <4>3. /\ fr.ctx \in 0..Len(handlers)
                  /\ (fr.ctx # 0 => fr.ctx \notin borrowed /\ canCycles'[fr.ctx] <= fr.sent)
                  /\ borrowed' = IF fr.ctx = 0 THEN borrowed ELSE borrowed \cup {fr.ctx}
                  /\ canCycles' \in [1..Len(handlers) -> 0..MaxU64]
                  /\ \A j \in 1..Len(handlers) : j # fr.ctx => canCycles'[j] = canCycles[j]
                  /\ handlers' = handlers
                  /\ PushFrame(fr)
                <5>1. fr.ctx \in 0..Len(handlers) /\ fr.ctx # 0
                    BY <3>7, <4>1
                <5>2. fr.ctx \notin borrowed /\ canCycles'[fr.ctx] <= fr.sent
                    <6>1. c \in Nat
                        BY <1>2
                    <6>2. i \notin borrowed
                        BY <2>6
                    <6>3. canCycles'[i] = c
                        BY <3>2
                    <6>4. fr.ctx = i /\ fr.sent = c
                        BY <4>1
                    <6> HIDE DEF fr
                    <6> QED
                        BY <6>1, <6>2, <6>3, <6>4
                <5>3. borrowed' = IF fr.ctx = 0 THEN borrowed ELSE borrowed \cup {fr.ctx}
                    BY <2>6, <4>1
                <5>4. \A j \in 1..Len(handlers) : j # fr.ctx => canCycles'[j] = canCycles[j]
                    BY <3>2, <4>1
                <5>5. handlers' = handlers /\ PushFrame(fr)
                    BY <1>1, <3>6
                <5> QED
                    BY <3>2, <5>1, <5>2, <5>3, <5>4, <5>5
            <4> HIDE DEF fr
            <4>2. stack' \in Seq(Frame) /\ FramesOK' /\ NoResidualCycles'
                BY <4>1, <4>3, PushIInv
            <4> QED
                BY <3>2, <3>3, <3>6, <4>2 DEF IInv, TypeOK
        <3> QED
            BY <2>6, <3>5, <3>6 DEF Perform
    <2> QED
        BY <2>1, <2>3, <2>4, <2>5, <2>6 DEF Dispatch
<1> QED
    BY <1>2, <1>3, <1>4 DEF CallRaw

(* IInv is inductive: every step of Next, and a stuttering step, keeps it. *)
LEMMA NextIInv == IInv /\ [Next]_vars => IInv'
<1> SUFFICES ASSUME IInv, [Next]_vars PROVE IInv'
    OBVIOUS
<1>1. CASE \E t \in Principals, m \in Methods, a \in Args, c \in Amounts :
              CallRaw(t, m, a, c)
    BY <1>1, CallRawIInv
<1>2. CASE MethodStep
    BY <1>2, MethodStepIInv
<1>3. CASE \E n \in Amounts : ClosureAccept(n)
    BY <1>3, ClosureAcceptIInv
<1>4. CASE \E res \in {"ok", "err"} : Return(res)
    BY <1>4, ReturnIInv
<1>5. CASE \E n \in Amounts : RootAccept(n)
    BY <1>5, RootAcceptIInv
<1>6. CASE \/ Caller \/ Trap \/ CallStateReset \/ Watch
           \/ \E b \in InitBalances : UpdateBalance(b)
           \/ \E n \in Amounts : UpdateMsgCycles(n)
    BY <1>6, RootOpsIInv
<1>7. CASE Inject
    BY <1>7, InjectIInv
<1>8. CASE UNCHANGED vars
    BY <1>8 DEF vars, IInv, TypeOK, FramesOK, RefundWithinSent,
                NoResidualCycles
<1> QED
    BY <1>1, <1>2, <1>3, <1>4, <1>5, <1>6, <1>7, <1>8 DEF Next, Engine,
       TestSetup

(* Every reachable state satisfies the inductive invariant.               *)
THEOREM IInvInvariant == Spec => []IInv
<1>1. Init => IInv
    BY InitIInv
<1>2. IInv /\ [Next]_vars => IInv'
    BY NextIInv
<1> QED
    BY <1>1, <1>2, PTL DEF Spec

(* Type correctness: the ledger stays within u64, the chain, frames,       *)
(* watcher records and Canister contexts keep their shapes.                *)
THEOREM TypeCorrect == Spec => []TypeOK
<1>1. IInv => TypeOK
    BY DEF IInv
<1> QED
    BY <1>1, IInvInvariant, PTL

(* No call the watcher records refunds more than it sent, whatever the     *)
(* handlers, the nesting of calls through closures, and the amounts.       *)
THEOREM RefundsWithinSent == Spec => []RefundWithinSent
<1>1. IInv => RefundWithinSent
    BY DEF IInv
<1> QED
    BY <1>1, IInvInvariant, PTL

(* A Canister context no call is running in never holds cycles.            *)
THEOREM ContextsZeroedWhenFree == Spec => []NoResidualCycles
<1>1. IInv => NoResidualCycles
    BY DEF IInv
<1> QED
    BY <1>1, IInvInvariant, PTL
=============================================================================
