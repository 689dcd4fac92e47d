--------------------------- MODULE TransferBuilder ---------------------------
(***************************************************************************)
(* prepareTransfer and preparePrivateTransfer (transaction.ts): from the   *)
(* split matrices of a coin selection to a signed bundle; and              *)
(* preparePrivateDeposit: from an amount to the calls that pay it to       *)
(* stealth addresses.  Building writes nothing but its own locals, so it   *)
(* is an operator and not an action; the pool address of each output is    *)
(* drawn by the caller (draw).                                             *)
(*                                                                         *)
(* A request has a mode, a type and a value: a token id if the type is     *)
(* "ERC721", else an amount (native ether and ERC-20 are one type here).   *)
(* Keys are abstracted to the address they sign for, metadata to type and  *)
(* value, and the order of the commands of a bundle, which shuffle         *)
(* permutes, is dropped: commands are a set.                               *)
(***************************************************************************)
EXTENDS Integers, SequencesExt

CONSTANTS
    MaxRecipientPool, \* bound: stealth addresses drawn for the recipient
    MaxChangePool     \* bound: fresh change addresses of one transfer

ASSUME PoolAssumption == MaxRecipientPool \in Nat /\ MaxChangePool \in Nat

\* An address: its kind, the transfer that made it up (or 0), and a number.
PublicRecipient == <<"public", 0, 1>>
Shard(n) == <<"shard", 0, n>>
RecipientPool(t) == {<<"recipient", t, n>> : n \in 1..MaxRecipientPool}
ChangePool(t) == {<<"change", t, n>> : n \in 1..MaxChangePool}
DepositPool(t) == {<<"deposit", t, n>> : n \in 1..MaxRecipientPool}

Kind(address) == address[1]

\* Change, deposits and private payments are announced; a public recipient is not.
Stealth(address) == Kind(address) \in {"recipient", "change", "deposit"}

\* Where the outputs of a transfer may go.
Targets(t, mode, kind) ==
    IF kind = "change" THEN ChangePool(t)
    ELSE IF mode = "private" THEN RecipientPool(t) ELSE {PublicRecipient}

-----------------------------------------------------------------------------
(* Outputs.  A selection is a sequence of inputs [shard, payment, change]  *)
(* with the rows of the two matrices.                                      *)

\* amt <= 0n is skipped, but in a private payment of a token.
Skipped(request, kind, amt) ==
    amt <= 0 /\ ~(request.mode = "private" /\ request.type = "ERC721" /\ kind = "payment")

RowOf(request, input, kind) ==
    FlattenSeq([j \in DOMAIN input[kind] |->
                   IF Skipped(request, kind, input[kind][j]) THEN <<>>
                   ELSE <<[shard |-> input.shard, kind |-> kind,
                           type |-> request.type, value |-> input[kind][j]]>>])

\* Shard by shard, the payments before the change.
Outputs(request, selection) ==
    FlattenSeq([i \in DOMAIN selection |->
                   RowOf(request, selection[i], "payment")
                   \o RowOf(request, selection[i], "change")])

\* The pool addresses the outputs may be given, each drawn on its own.  Fresh
\* addresses are interchangeable: they are numbered in the order of first use.
Draws(t, mode, outputs) ==
    {draw \in [DOMAIN outputs -> Targets(t, mode, "payment") \cup Targets(t, mode, "change")] :
        \A k \in DOMAIN outputs :
            /\ draw[k] \in Targets(t, mode, outputs[k].kind)
            /\ \A n \in 1..(draw[k][3] - 1) :
                   \E j \in 1..(k - 1) : draw[j] = <<draw[k][1], draw[k][2], n>>}

\* Mutant: only the change of the first shard is announced.
alreadyTrackedShard(draw, outputs, k) ==
    \E j \in 1..(k - 1) : draw[j] = draw[k] \/ outputs[j].shard # outputs[k].shard

alreadyTracked(draw, outputs, k) == \E j \in 1..(k - 1) : draw[j] = draw[k]

\* An address is announced when it is first drawn, with that output's value.
Announcements(draw, outputs) ==
    {[stealthAddress |-> draw[k], type |-> outputs[k].type, value |-> outputs[k].value] :
        k \in {j \in DOMAIN outputs :
                   Stealth(draw[j]) /\ ~alreadyTracked(draw, outputs, j)}}

\* One entry for every change output, also when an address is drawn again.
ChangeShards(draw, outputs) ==
    FlattenSeq([k \in DOMAIN outputs |->
                   IF outputs[k].kind # "change" THEN <<>>
                   ELSE <<[address |-> draw[k], amount |-> outputs[k].value]>>])

-----------------------------------------------------------------------------
(* Commands.                                                               *)

\* Mutant: a later command with the same key replaces the earlier ones.
FusedLast(draw, outputs, shard, to) ==
    outputs[CHOOSE k \in DOMAIN outputs :
        /\ outputs[k].shard = shard /\ draw[k] = to
        /\ \A j \in DOMAIN outputs :
               outputs[j].shard = shard /\ draw[j] = to => j <= k].value

\* Outputs of one shard to one address are fused into one command.
Fused(draw, outputs, shard, to) ==
    SumFunctionOnSet([k \in DOMAIN outputs |-> outputs[k].value],
                     {k \in DOMAIN outputs : outputs[k].shard = shard /\ draw[k] = to})

\* Token ids cannot be summed: these outputs stay commands of their own.
FinalCommands(draw, outputs) ==
    {[shard |-> outputs[k].shard, to |-> draw[k], type |-> outputs[k].type,
      value |-> IF outputs[k].type = "ERC721" THEN outputs[k].value
                ELSE Fused(draw, outputs, outputs[k].shard, draw[k])] :
        k \in DOMAIN outputs}

\* What the signature of a command covers besides chain, router and token.
SignedContent(command, announcements) ==
    [shard |-> command.shard, to |-> command.to, type |-> command.type,
     value |-> command.value, announcements |-> announcements]

\* Mutant: each output is signed before fusing, by its own amount.
SignedBeforeFusing(draw, outputs, command) ==
    LET first == CHOOSE k \in DOMAIN outputs :
                     outputs[k].shard = command.shard /\ draw[k] = command.to
    IN  SignedContent([command EXCEPT !.value = outputs[first].value],
                      Announcements(draw, outputs))

\* The final commands are signed, over all announcements of the bundle.
Signature(draw, outputs, command) == SignedContent(command, Announcements(draw, outputs))

Commands(draw, outputs) ==
    {[shard |-> c.shard, to |-> c.to, type |-> c.type, value |-> c.value,
      signature |-> Signature(draw, outputs, c)] :
        c \in FinalCommands(draw, outputs)}

\* PreparedTransfer.
Prepared(request, draw, selection) ==
    LET outputs == Outputs(request, selection)
    IN  [commands       |-> Commands(draw, outputs),
         announcements  |-> Announcements(draw, outputs),
         changeShards   |-> ChangeShards(draw, outputs),
         shardAddresses |-> {selection[i].shard : i \in DOMAIN selection}]

-----------------------------------------------------------------------------
(* Deposits.                                                               *)

\* Part i of the amount is paid to the i-th address of the pool, and announced.
\* Transfers and announcements are shuffled apart and then take turns; a token is
\* one part, so that its transfer comes first.
DepositCalls(t, request, parts) ==
    LET call(is, i) == [is |-> is, to |-> <<"deposit", t, i>>, type |-> request.type,
                        value |-> parts[i]]
        orders == SetToSeqs(DOMAIN parts)
    IN  {FlattenSeq([i \in DOMAIN parts |-> <<call("transfer", p[i]), call("announce", q[i])>>]) :
            p \in orders, q \in orders}
=============================================================================
