---------------------------- MODULE MCRelayQueue ----------------------------
(***************************************************************************)
(* Three requests: two compete for the deposit of p1, the third is         *)
(* sponsored by p2.  A deposit of 2 covers one request at gas price 2, or  *)
(* two at gas price 1.                                                     *)
(***************************************************************************)
EXTENDS RelayQueue

CONSTANTS p1, p2, r1, r2, r3

MCPaymasterOf    == [r \in {r1, r2, r3} |-> IF r = r3 THEN p2 ELSE p1]
MCMaxGasOf       == [r \in {r1, r2, r3} |-> 1]
MCInitialDeposit == [p \in {p1, p2} |-> 2]

\* Two requests of one paymaster whose deposit covers only one of them.
PairPaymasterOf    == [r \in {r1, r2} |-> p1]
PairMaxGasOf       == [r \in {r1, r2} |-> 1]
PairInitialDeposit == [p \in {p1} |-> 1]

\* Nothing goes wrong outside the relayer: the answer to a broadcast is never
\* lost, and every receipt arrives before the watcher's timeout.
Healthy ==
    \A r \in Requests :
        /\ r \in Accepted => status'[r] # "failed"
        /\ status'[r] = "confirmed" => r \in mined

ConcurrentSpec == Init /\ [][Next /\ Healthy]_vars
=============================================================================
