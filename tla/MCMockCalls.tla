---------------------------- MODULE MCMockCalls ----------------------------
(***************************************************************************)
(* Small instances of MockCalls for TLC: two canister ids, two methods,   *)
(* two argument strings, cycles 0..2 and a u64 scaled down to 0..3.        *)
(***************************************************************************)
EXTENDS MockCalls, TLC

CONSTANTS c1, c2, m1, m2, a1, a2

Raw == [kind |-> "raw", name |-> NoName, atoms |-> << >>, expected |-> NoArgs]

(* Method::new().name(m1).cycles_consume_all() *)
ConsumeAllM1 == [kind |-> "method", name |-> m1,
                 atoms |-> << [op |-> "all", n |-> 0] >>, expected |-> NoArgs]

(* Method::new().cycles_refund(1).expect_arguments(a1) *)
RefundOneA1 == [kind |-> "method", name |-> NoName,
                atoms |-> << [op |-> "refund", n |-> 1] >>, expected |-> a1]

(* Method::new().cycles_consume(1), as with_accept_cycles_handler(1) builds *)
ConsumeOne == [kind |-> "method", name |-> NoName,
               atoms |-> << [op |-> "consume", n |-> 1] >>, expected |-> NoArgs]

(* Canister::new(c1).method(m1, Raw).or(RefundOneA1): a call to m2 takes  *)
(* the default route.                                                     *)
CanisterC1 == [kind |-> "canister", id |-> c1,
               methods |-> (m1 :> Raw) @@ (m2 :> NoHandler),
               default |-> RefundOneA1]

(* Canister::new(c1).method(m1, Method::new().name(m2)).or(Raw): the      *)
(* method registered under m1 only accepts calls to m2.                   *)
CanisterMisnamed == [kind |-> "canister", id |-> c1,
                     methods |-> (m1 :> [ConsumeOne EXCEPT !.name = m2]) @@ (m2 :> NoHandler),
                     default |-> Raw]

MCChains == { << CanisterC1, ConsumeAllM1 >>, << Raw >> }

MCChainsMisnamed == { << CanisterMisnamed >> }

MCChainsRawOnly == { << Raw >> }
=============================================================================
