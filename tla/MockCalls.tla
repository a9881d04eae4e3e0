----------------------------- MODULE MockCalls -----------------------------
(***************************************************************************)
(* The mock execution engine of ic-kit: the cycle ledger of the injected   *)
(* MockContext (src/src/mock.rs) and the outbound call `call_raw` walking  *)
(* its handler chain of Method, RawHandler and Canister handlers           *)
(* (src/src/handler.rs).                                                   *)
(*                                                                         *)
(* Everything runs on one thread.  The thread is modelled as a stack of    *)
(* frames: the test code (or canister code under test) runs when the stack *)
(* is empty; a `perform` in progress is a frame; only the top frame runs.  *)
(* A Method frame executes its cycle atoms one per step; a RawHandler      *)
(* frame is an arbitrary closure that may accept cycles on the context it  *)
(* was given, call `get_context()` -- the injected root context -- and     *)
(* issue a nested `call_raw` through it, and eventually returns Ok or Err. *)
(*                                                                         *)
(* A Canister handler owns a MockContext in a RefCell; it is identified by *)
(* its index in the handler chain.  Cycles accepted by the throwaway       *)
(* context that Method/RawHandler create when no context is passed are     *)
(* kept in the frame (`kept`) and disappear with it.                       *)
(***************************************************************************)
EXTENDS Naturals, Sequences, FiniteSets

CONSTANTS
    Principals,     \* canister ids a call may target
    Methods,        \* method names
    Args,           \* raw (encoded) argument byte strings
    Chains,         \* handler chains the test builder may install
    Amounts,        \* cycle amounts code passes to call_raw / msg_cycles_accept
    InitBalances,   \* balances the builder (with_balance) may give a context
    MaxU64,         \* u64::MAX
    MaxDepth,       \* bound: nested perform frames
    MaxCalls,       \* bound: calls recorded by the watcher in one watch epoch
    MaxClosureSteps,\* bound: operations one closure invocation performs
    NoName,         \* Method::name is None
    NoArgs,         \* Method::expected_args is None
    NoHandler       \* Canister::default is None

(***************************************************************************)
(* Handlers, as the builders of handler.rs construct them.  A Canister's    *)
(* sub-handlers are Methods or RawHandlers (a nested Canister would fail    *)
(* the assert at handler.rs:348 and is left out).  Canister::methods, a    *)
(* HashMap, is a function that is NoHandler where no method is registered. *)
(***************************************************************************)
Atom == [op : {"all"}, n : {0}] \cup [op : {"consume", "refund"}, n : Nat]

Leaf == [kind : {"method", "raw"}, name : Methods \cup {NoName},
         atoms : Seq(Atom), expected : Args \cup {NoArgs}]

CanisterHandler ==
    [kind : {"canister"}, id : Principals,
     methods : [Methods -> Leaf \cup {NoHandler}],
     default : Leaf \cup {NoHandler}]

Handler == Leaf \cup CanisterHandler

ASSUME ConstAssumption ==
    /\ MaxU64 \in Nat
    /\ Amounts \subseteq 0..MaxU64
    /\ InitBalances \subseteq 0..MaxU64
    /\ MaxDepth \in Nat /\ MaxCalls \in Nat /\ MaxClosureSteps \in Nat
    /\ Chains \subseteq Seq(Handler)
    /\ NoName \notin Methods /\ NoArgs \notin Args

(* Reasons the test aborts (a Rust panic); "none" while it runs. *)
Panics == {"none", "insufficient_cycles", "no_handler", "args_mismatch",
           "over_refund", "already_borrowed", "overflow",
           "reply_mode_caller", "trap"}

Frame == [handler : Leaf, ctx : Nat, target : Principals, method : Methods,
          sent : 0..MaxU64, pc : Nat \ {0},
          avail : 0..MaxU64, kept : 0..MaxU64]

(* A WatcherCall (mock.rs:76-82); args_raw, which no query of this model  *)
(* reads, is left out.                                                    *)
WatcherCall == [canister_id : Principals, method_name : Methods,
                cycles_sent : 0..MaxU64,
                cycles_refunded : 0..MaxU64]

VARIABLES
    handlers,       \* MockContext::handlers, the installed chain
    balance,        \* MockContext::balance of the root context
    cycles,         \* MockContext::cycles (msg cycles available) of the root
    cyclesRefunded, \* MockContext::cycles_refunded of the root
    replyMode,      \* MockContext::is_reply_callback_mode of the root
    trapped,        \* MockContext::trapped of the root
    calledCaller,   \* Watcher::called_caller of the root
    calls,          \* Watcher::calls of the root
    canBalance,     \* chain index -> balance of that Canister's context
    canCycles,      \* chain index -> msg cycles of that Canister's context
    borrowed,       \* chain indices whose RefCell context is borrowed mutably
    stack,          \* perform frames in progress, innermost last
    response,       \* the value the last completed call_raw resolved to
    panicked        \* the panic that ended the test, or "none"

vars == <<handlers, balance, cycles, cyclesRefunded, replyMode, trapped,
          calledCaller, calls, canBalance, canCycles, borrowed, stack,
          response, panicked>>

Min2(a, b) == IF a < b THEN a ELSE b

Top == stack[Len(stack)]

Running == panicked = "none"

(* Code that owns the thread may use the root context: the test itself,   *)
(* or a closure at the top of the stack calling get_context().            *)
RootCodeRuns ==
    /\ Running
    /\ \/ stack = << >>
       \/ stack # << >> /\ Top.handler.kind = "raw"

-----------------------------------------------------------------------------
(* CallHandler::accept of Method and RawHandler (handler.rs:237-244, 297). *)
LeafAccept(h, m) == h.kind = "raw" \/ h.name = NoName \/ h.name = m

(* CallHandler::accept of every handler (Canister: handler.rs:326-336).   *)
Accept(h, t, m) ==
    IF h.kind = "canister"
    THEN /\ h.id = t
         /\ \/ h.default # NoHandler
            \/ h.methods[m] # NoHandler /\ LeafAccept(h.methods[m], m)
    ELSE LeafAccept(h, m)

(* i is the index call_raw's loop stops at (mock.rs:530-537): the first  *)
(* handler that accepts, or 0 when the loop runs off the end.             *)
FirstAccepting(i, t, m) ==
    /\ \A j \in 1..(IF i = 0 THEN Len(handlers) ELSE i - 1) :
          ~Accept(handlers[j], t, m)
    /\ i # 0 => Accept(handlers[i], t, m)

(* The sub-handler Canister::perform delegates to (handler.rs:354-364).   *)
CanisterRoute(h, m) ==
    IF h.methods[m] # NoHandler THEN h.methods[m] ELSE h.default

(* MockContext::msg_cycles_available() of the context a frame runs in.    *)
Avail(f) == IF f.ctx = 0 THEN f.avail ELSE canCycles[f.ctx]

(* Seeded faults, each a plausible slip in the code modelled just below;   *)
(* model checking them shows the properties can see such a slip.          *)
(* An unchecked `balance += r` that does not panic at u64::MAX.           *)
FrameAcceptUnchecked(n) ==
    LET f == Top
        r == Min2(n, Avail(f))
    IN \/ /\ f.ctx = 0
          /\ stack' = [stack EXCEPT ![Len(stack)] =
                         [f EXCEPT !.avail = @ - r, !.kept = @ + r, !.pc = @ + 1]]
          /\ UNCHANGED <<canCycles, canBalance, panicked>>
       \/ /\ f.ctx # 0
          /\ canCycles' = [canCycles EXCEPT ![f.ctx] = @ - r]
          /\ canBalance' = [canBalance EXCEPT ![f.ctx] = @ + r]
          /\ stack' = [stack EXCEPT ![Len(stack)].pc = @ + 1]
          /\ UNCHANGED panicked

(* Accepting the amount asked for instead of min(asked, available).       *)
FrameAcceptUnclamped(n) ==
    LET f == Top
    IN \/ /\ f.ctx = 0
          /\ stack' = [stack EXCEPT ![Len(stack)] =
                         [f EXCEPT !.avail = @ - Min2(n, @), !.kept = @ + n,
                                   !.pc = @ + 1]]
          /\ UNCHANGED <<canCycles, canBalance, panicked>>
       \/ /\ f.ctx # 0 /\ canBalance[f.ctx] + n > MaxU64
          /\ panicked' = "overflow"
          /\ UNCHANGED <<stack, canCycles, canBalance>>
       \/ /\ f.ctx # 0 /\ canBalance[f.ctx] + n <= MaxU64
          /\ canCycles' = [canCycles EXCEPT ![f.ctx] = @ - Min2(n, @)]
          /\ canBalance' = [canBalance EXCEPT ![f.ctx] = @ + n]
          /\ stack' = [stack EXCEPT ![Len(stack)].pc = @ + 1]
          /\ UNCHANGED panicked

(* An atom loop that forgets to move to the next atom.                    *)
FrameAcceptStuck(n) ==
    LET f == Top
        r == Min2(n, Avail(f))
    IN \/ /\ f.ctx = 0
          /\ stack' = [stack EXCEPT ![Len(stack)] =
                         [f EXCEPT !.avail = @ - r, !.kept = @ + r]]
          /\ UNCHANGED <<canCycles, canBalance, panicked>>
       \/ /\ f.ctx # 0 /\ canBalance[f.ctx] + r > MaxU64
          /\ panicked' = "overflow"
          /\ UNCHANGED <<stack, canCycles, canBalance>>
       \/ /\ f.ctx # 0 /\ canBalance[f.ctx] + r <= MaxU64
          /\ canCycles' = [canCycles EXCEPT ![f.ctx] = @ - r]
          /\ canBalance' = [canBalance EXCEPT ![f.ctx] = @ + r]
          /\ UNCHANGED <<stack, panicked>>

(* msg_cycles_accept(n) on the top frame's context (mock.rs:424-437),     *)
(* then the frame's program counter advances.  The balance += is checked  *)
(* arithmetic (debug build): it panics rather than wrap.                  *)
FrameAccept(n) ==
    LET f == Top
        r == Min2(n, Avail(f))
    IN \/ /\ f.ctx = 0
          /\ stack' = [stack EXCEPT ![Len(stack)] =
                         [f EXCEPT !.avail = @ - r, !.kept = @ + r, !.pc = @ + 1]]
          /\ UNCHANGED <<canCycles, canBalance, panicked>>
       \/ /\ f.ctx # 0 /\ canBalance[f.ctx] + r > MaxU64
          /\ panicked' = "overflow"
          /\ UNCHANGED <<stack, canCycles, canBalance>>
       \/ /\ f.ctx # 0 /\ canBalance[f.ctx] + r <= MaxU64
          /\ canCycles' = [canCycles EXCEPT ![f.ctx] = @ - r]
          /\ canBalance' = [canBalance EXCEPT ![f.ctx] = @ + r]
          /\ stack' = [stack EXCEPT ![Len(stack)].pc = @ + 1]
          /\ UNCHANGED panicked

NewFrame(h, ctx, t, m, c) ==
    [handler |-> h, ctx |-> ctx, target |-> t, method |-> m,
     sent |-> c, pc |-> 1, avail |-> IF ctx = 0 THEN c ELSE 0, kept |-> 0]

(* Method::perform's expected-argument assertion (handler.rs:256-258).    *)
ArgsOk(h, a) == h.kind = "raw" \/ h.expected = NoArgs \/ h.expected = a

(* A nested call_raw made by a closure counts as one of its operations.   *)
PushFrame(fr) ==
    stack' = Append(IF stack = << >> THEN stack
                    ELSE [stack EXCEPT ![Len(stack)].pc = @ + 1], fr)

-----------------------------------------------------------------------------
(***************************************************************************)
(* Initial states: MockContext::new() configured by the builder chain      *)
(* (with_balance, with_msg_cycles, with_handler, Canister::with_balance)   *)
(* and injected.                                                           *)
(***************************************************************************)
Installed(h, b, c, cr, rm, tr, cc, cl, cb, cy, bo, st, rs, pn) ==
    /\ h \in Chains
    /\ b \in InitBalances
    /\ c \in Amounts
    /\ cr = 0
    /\ rm = FALSE
    /\ tr = FALSE
    /\ cc = FALSE
    /\ cl = << >>
    /\ cb \in {f \in [1..Len(h) -> InitBalances \cup {0}] :
                 \A i \in 1..Len(h) : h[i].kind # "canister" => f[i] = 0}
    /\ cy = [i \in 1..Len(h) |-> 0]
    /\ bo = {}
    /\ st = << >>
    /\ rs = [result |-> "none", sent |-> 0]
    /\ pn = "none"

Init ==
    Installed(handlers, balance, cycles, cyclesRefunded, replyMode, trapped,
              calledCaller, calls, canBalance, canCycles, borrowed, stack,
              response, panicked)

(* Method::perform / RawHandler::perform up to running user code: the     *)
(* argument assertion, then the frame starts.                             *)
Perform(h, ctx, t, m, a, c) ==
    \/ /\ ~ArgsOk(h, a)
       /\ panicked' = "args_mismatch"
       /\ UNCHANGED stack
    \/ /\ ArgsOk(h, a)
       /\ PushFrame(NewFrame(h, ctx, t, m, c))
       /\ UNCHANGED panicked

(* call_raw's handler loop (mock.rs:530-542) and, for a Canister, the     *)
(* prologue of Canister::perform (handler.rs:348-373): borrow_mut of its  *)
(* context, update_msg_cycles, route to the method or the default.        *)
Dispatch(i, t, m, a, c) ==
    \/ /\ i = 0
       /\ panicked' = "no_handler"
       /\ UNCHANGED <<stack, canCycles, borrowed>>
    \/ /\ i # 0 /\ handlers[i].kind # "canister"
       /\ Perform(handlers[i], 0, t, m, a, c)
       /\ UNCHANGED <<canCycles, borrowed>>
    \/ /\ i # 0 /\ handlers[i].kind = "canister" /\ i \in borrowed
       /\ panicked' = "already_borrowed"
       /\ UNCHANGED <<stack, canCycles, borrowed>>
    \/ /\ i # 0 /\ handlers[i].kind = "canister" /\ i \notin borrowed
       /\ borrowed' = borrowed \cup {i}
       /\ canCycles' = [canCycles EXCEPT ![i] = c]
       /\ Perform(CanisterRoute(handlers[i], m), i, t, m, a, c)

(* MockContext::call_raw (mock.rs:512-542), by the test or by a closure.   *)
CallRaw(t, m, a, c) ==
    /\ RootCodeRuns
    /\ Len(stack) < MaxDepth /\ Len(calls) < MaxCalls
    /\ stack # << >> => Top.pc <= MaxClosureSteps
    /\ \/ /\ c > balance
          /\ panicked' = "insufficient_cycles"
          /\ UNCHANGED <<balance, replyMode, stack, canCycles, borrowed>>
       \/ /\ c <= balance
          /\ balance' = balance - c
          /\ replyMode' = TRUE
          /\ \E i \in 0..Len(handlers) :
                FirstAccepting(i, t, m) /\ Dispatch(i, t, m, a, c)
    /\ UNCHANGED <<handlers, cycles, cyclesRefunded, trapped, calledCaller,
                   calls, canBalance, response>>

(* One atom of Method::perform's loop (handler.rs:263-283).                *)
MethodStep ==
    /\ Running /\ stack # << >>
    /\ Top.handler.kind = "method"
    /\ Top.pc <= Len(Top.handler.atoms)
    /\ LET at == Top.handler.atoms[Top.pc] IN
       \/ at.op = "all" /\ FrameAccept(MaxU64)
       \/ at.op = "consume" /\ FrameAccept(at.n)
       \/ /\ at.op = "refund" /\ at.n > Avail(Top)
          /\ panicked' = "over_refund"
          /\ UNCHANGED <<stack, canCycles, canBalance>>
       \/ at.op = "refund" /\ at.n <= Avail(Top) /\ FrameAccept(Avail(Top) - at.n)
    /\ UNCHANGED <<handlers, balance, cycles, cyclesRefunded, replyMode,
                   trapped, calledCaller, calls, borrowed, response>>

(* The closure of a RawHandler calls ctx.msg_cycles_accept(n).             *)
ClosureAccept(n) ==
    /\ Running /\ stack # << >>
    /\ Top.handler.kind = "raw"
    /\ Top.pc <= MaxClosureSteps
    /\ FrameAccept(n)
    /\ UNCHANGED <<handlers, balance, cycles, cyclesRefunded, replyMode,
                   trapped, calledCaller, calls, borrowed, response>>

(* Seeded fault: the Canister forgets update_msg_cycles(0).               *)
ReleaseContextNoReset(f) ==
    IF f.ctx = 0 THEN UNCHANGED <<canCycles, borrowed>>
    ELSE /\ borrowed' = borrowed \ {f.ctx}
         /\ UNCHANGED canCycles

(* The end of Canister::perform (handler.rs:375-377): the refund equals   *)
(* the context's available cycles, which are zeroed, and the RefCell      *)
(* borrow ends.  Nothing to do for a throwaway context.                   *)
ReleaseContext(f) ==
    IF f.ctx = 0 THEN UNCHANGED <<canCycles, borrowed>>
    ELSE /\ canCycles' = [canCycles EXCEPT ![f.ctx] = 0]
         /\ borrowed' = borrowed \ {f.ctx}

(* Seeded fault: the WatcherCall is built with sent and refunded swapped. *)
SettleSwapped(f, refund, res) ==
    /\ cyclesRefunded' = refund
    /\ \/ /\ balance + refund > MaxU64
          /\ panicked' = "overflow"
          /\ UNCHANGED <<balance, calls, response>>
       \/ /\ balance + refund <= MaxU64
          /\ balance' = balance + refund
          /\ calls' = Append(calls,
                        [canister_id |-> f.target, method_name |-> f.method,
                         cycles_sent |-> refund, cycles_refunded |-> f.sent])
          /\ response' = [result |-> res, sent |-> f.sent]
          /\ UNCHANGED panicked

(* The end of call_raw (mock.rs:544-555): remember and credit the refund  *)
(* (checked addition), record the call, resolve the future with res.      *)
Settle(f, refund, res) ==
    /\ cyclesRefunded' = refund
    /\ \/ /\ balance + refund > MaxU64
          /\ panicked' = "overflow"
          /\ UNCHANGED <<balance, calls, response>>
       \/ /\ balance + refund <= MaxU64
          /\ balance' = balance + refund
          /\ calls' = Append(calls,
                        [canister_id |-> f.target, method_name |-> f.method,
                         cycles_sent |-> f.sent, cycles_refunded |-> refund])
          /\ response' = [result |-> res, sent |-> f.sent]
          /\ UNCHANGED panicked

(* The top frame returns: a Method once its atoms are done, with Ok; a    *)
(* closure whenever it likes, with Ok or Err.  The refund is what its     *)
(* context still has available (handler.rs:285-291, 318-320).             *)
Return(res) ==
    /\ Running /\ stack # << >>
    /\ \/ /\ Top.handler.kind = "method" /\ res = "ok"
          /\ Top.pc > Len(Top.handler.atoms)
       \/ Top.handler.kind = "raw"
    /\ stack' = SubSeq(stack, 1, Len(stack) - 1)
    /\ ReleaseContext(Top)
    /\ Settle(Top, Avail(Top), res)
    /\ UNCHANGED <<handlers, cycles, replyMode, trapped, calledCaller,
                   canBalance>>

(* Root context operations of the Context trait (mock.rs:369-437).         *)
RootAccept(n) ==
    /\ RootCodeRuns
    /\ LET r == Min2(n, cycles) IN
       \/ /\ balance + r > MaxU64
          /\ panicked' = "overflow"
          /\ UNCHANGED <<balance, cycles>>
       \/ /\ balance + r <= MaxU64
          /\ cycles' = cycles - r
          /\ balance' = balance + r
          /\ UNCHANGED panicked
    /\ UNCHANGED <<handlers, cyclesRefunded, replyMode, trapped, calledCaller,
                   calls, canBalance, canCycles, borrowed, stack, response>>

Caller ==
    /\ RootCodeRuns
    /\ calledCaller' = TRUE
    /\ panicked' = IF replyMode THEN "reply_mode_caller" ELSE panicked
    /\ UNCHANGED <<handlers, balance, cycles, cyclesRefunded, replyMode,
                   trapped, calls, canBalance, canCycles, borrowed, stack,
                   response>>

Trap ==
    /\ RootCodeRuns
    /\ trapped' = TRUE
    /\ panicked' = "trap"
    /\ UNCHANGED <<handlers, balance, cycles, cyclesRefunded, replyMode,
                   calledCaller, calls, canBalance, canCycles, borrowed,
                   stack, response>>

CallStateReset ==
    /\ RootCodeRuns
    /\ replyMode' = FALSE
    /\ trapped' = FALSE
    /\ UNCHANGED <<handlers, balance, cycles, cyclesRefunded, calledCaller,
                   calls, canBalance, canCycles, borrowed, stack, response,
                   panicked>>

Watch ==
    /\ RootCodeRuns
    /\ calls' = << >>
    /\ calledCaller' = FALSE
    /\ UNCHANGED <<handlers, balance, cycles, cyclesRefunded, replyMode,
                   trapped, canBalance, canCycles, borrowed, stack, response,
                   panicked>>

(* Test-side setters update_balance / update_msg_cycles (mock.rs:343-351), *)
(* called by the test between calls.                                      *)
UpdateBalance(b) ==
    /\ Running /\ stack = << >>
    /\ balance' = b
    /\ UNCHANGED <<handlers, cycles, cyclesRefunded, replyMode, trapped,
                   calledCaller, calls, canBalance, canCycles, borrowed,
                   stack, response, panicked>>

UpdateMsgCycles(n) ==
    /\ Running /\ stack = << >>
    /\ cycles' = n
    /\ UNCHANGED <<handlers, balance, cyclesRefunded, replyMode, trapped,
                   calledCaller, calls, canBalance, canCycles, borrowed,
                   stack, response, panicked>>

(* The next test injects a fresh context (inject.rs, not in src/).         *)
Inject ==
    /\ stack = << >> \/ ~Running
    /\ Installed(handlers', balance', cycles', cyclesRefunded', replyMode',
                 trapped', calledCaller', calls', canBalance', canCycles',
                 borrowed', stack', response', panicked')

Engine ==
    \/ \E t \in Principals, m \in Methods, a \in Args, c \in Amounts :
          CallRaw(t, m, a, c)
    \/ MethodStep
    \/ \E n \in Amounts : ClosureAccept(n)
    \/ \E res \in {"ok", "err"} : Return(res)
    \/ \E n \in Amounts : RootAccept(n)
    \/ Caller \/ Trap \/ CallStateReset \/ Watch

TestSetup ==
    \/ \E b \in InitBalances : UpdateBalance(b)
    \/ \E n \in Amounts : UpdateMsgCycles(n)
    \/ Inject

Next == Engine \/ TestSetup

(* The thread runs the top frame: a Method's atoms run to the end, and a  *)
(* closure, being finite code, eventually returns.                        *)
Fairness == WF_vars(MethodStep) /\ WF_vars(\E res \in {"ok", "err"} : Return(res))

Spec == Init /\ [][Next]_vars /\ Fairness
-----------------------------------------------------------------------------
TypeOK ==
    /\ handlers \in Seq(Handler)
    /\ balance \in 0..MaxU64
    /\ cycles \in 0..MaxU64
    /\ cyclesRefunded \in 0..MaxU64
    /\ replyMode \in BOOLEAN /\ trapped \in BOOLEAN /\ calledCaller \in BOOLEAN
    /\ calls \in Seq(WatcherCall)
    /\ canBalance \in [1..Len(handlers) -> 0..MaxU64]
    /\ canCycles \in [1..Len(handlers) -> 0..MaxU64]
    /\ borrowed \subseteq 1..Len(handlers)
    /\ stack \in Seq(Frame)
    /\ response \in [result : {"none", "ok", "err"}, sent : 0..MaxU64]
    /\ panicked \in Panics

(* The sum of the numbers in a sequence.                                   *)
SeqSum(s) ==
    LET part[k \in 0..Len(s)] == IF k = 0 THEN 0 ELSE part[k - 1] + s[k]
    IN part[Len(s)]

(* Every cycle the simulation holds: the root's balance and available     *)
(* cycles, every Canister context's balance and available cycles, and the *)
(* available and accepted cycles of the throwaway contexts of the frames. *)
Total ==
    balance + cycles + SeqSum(canBalance) + SeqSum(canCycles)
    + SeqSum([k \in 1..Len(stack) |-> stack[k].avail + stack[k].kept])

(* What a step throws away: the cycles accepted by a throwaway context     *)
(* when the frame that created it returns.                                 *)
Dropped ==
    IF Len(stack') < Len(stack) /\ Top.ctx = 0 THEN Top.kept ELSE 0

(***************************************************************************)
(* Cycles are conserved: no step of the engine -- call_raw's reservation   *)
(* and refund, the atoms of a Method, a closure's accepts, a Canister      *)
(* zeroing its context, the root's msg_cycles_accept -- creates or loses   *)
(* a cycle, except that a throwaway context's accepted cycles vanish with  *)
(* it.  Only the test's setters and a new injection change the total.     *)
(***************************************************************************)
CyclesConserved == [][Engine /\ Running' => Total' + Dropped = Total]_vars

(***************************************************************************)
(* Every call the watcher records refunded at most the cycles it sent      *)
(* (the CallHandler contract, spec 4.1): cycles_consumed() of a WatcherCall *)
(* (mock.rs:699-701) never underflows.                                     *)
(***************************************************************************)
RefundWithinSent ==
    \A k \in 1..Len(calls) : calls[k].cycles_refunded <= calls[k].cycles_sent

(***************************************************************************)
(* A Canister context that no call is running in has no cycles available: *)
(* Canister::perform zeroes it after every call (handler.rs:376) and no    *)
(* other call can reach it while it is borrowed.                           *)
(***************************************************************************)
NoResidualCycles ==
    \A i \in 1..Len(handlers) : i \notin borrowed => canCycles[i] = 0

(***************************************************************************)
(* The frames' bookkeeping, which makes the invariants above inductive: a  *)
(* frame runs in the root-free throwaway context (ctx 0) or in the context *)
(* of a Canister of the chain; a throwaway context never holds more than   *)
(* was sent to it; a Canister context in use is borrowed by exactly one    *)
(* frame and holds no more than that frame's call sent.                    *)
(***************************************************************************)
FramesOK ==
    \A k \in 1..Len(stack) :
        LET f == stack[k] IN
        /\ f.ctx \in 0..Len(handlers)
        /\ f.avail + f.kept <= f.sent
        /\ f.ctx # 0 =>
              /\ f.ctx \in borrowed
              /\ canCycles[f.ctx] <= f.sent
              /\ \A l \in 1..Len(stack) : l # k => stack[l].ctx # f.ctx

IInv == TypeOK /\ FramesOK /\ RefundWithinSent /\ NoResidualCycles

(***************************************************************************)
(* Every call_raw completes or the test aborts (spec section 5): once a    *)
(* frame is on the stack at depth d, the stack eventually drops below d or *)
(* a panic ends the test.                                                  *)
(***************************************************************************)
CallsTerminate ==
    \A d \in 1..MaxDepth :
        Len(stack) >= d ~> (Len(stack) < d \/ ~Running)

(***************************************************************************)
(* Spec 4.5 step 5: call_raw clears the reentrant (reply-callback) mode    *)
(* when it returns, so once no call is in progress, caller() is usable.    *)
(***************************************************************************)
ReplyModeClearedWhenIdle ==
    (Running /\ stack = << >>) => ~replyMode

(***************************************************************************)
(* The CallHandler contract (handler.rs:20): perform is only called on a   *)
(* handler whose accept() returned true for the call.                      *)
(***************************************************************************)
PerformOnlyAfterAccept ==
    \A k \in 1..Len(stack) : LeafAccept(stack[k].handler, stack[k].method)

(***************************************************************************)
(* Spec section 5 and 7: nested dispatch into a Canister only ends by      *)
(* stack exhaustion or a listed fatal error, never by the Canister's       *)
(* RefCell being borrowed twice (handler.rs:350).                          *)
(***************************************************************************)
NoReentrantBorrowPanic == panicked # "already_borrowed"
=============================================================================
