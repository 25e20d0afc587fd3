-------------------------- MODULE ExecTransaction --------------------------
(***************************************************************************)
(* PolymeshService.execTransaction: a polkadot.js extrinsic signed and     *)
(* sent past the SDK, with concurrent calls by the same signer.  The nonce *)
(* is left to polkadot.js (-1), which asks the node for the signer's next  *)
(* index and sends afterwards, so two calls may get the same one; the      *)
(* second to send is then turned down by the pool.  The promise returned   *)
(* is settled by the receipt callback and by nothing else.                 *)
(*                                                                         *)
(* An operator whose comment starts with "Slip:" is a plausible mistake in *)
(* the definition that follows it, kept for mutation checks only.          *)
(***************************************************************************)
EXTENDS Naturals, Sequences, FiniteSets

CONSTANTS
    Calls,      \* calls of execTransaction by one signer
    Method,     \* the extrinsic of each call
    MaxForks,   \* bound on the blocks that a fork takes back
    Lossy       \* whether the pool may drop an extrinsic

ASSUME ExecAssumption ==
    /\ IsFiniteSet(Calls)
    /\ MaxForks \in Nat /\ Lossy \in BOOLEAN /\ Method \in [Calls -> STRING]

VARIABLES
    pc,         \* how far signAndSend has come
    nonce,      \* the nonce each call was signed with
    inPool,     \* calls whose extrinsic is in the pool
    chain,      \* the signer's calls that the chain holds, in their order
    blocks,     \* outcomes of each extrinsic, block by block, forks included
    receipts,   \* receipts under way to each callback
    promise,    \* the promise that the callback settles
    forks

vars == <<pc, nonce, inPool, chain, blocks, receipts, promise, forks>>

PcStates == {"idle", "nextIndex", "sending", "subscribed", "unsubscribed", "turnedDown"}
Outcomes == {"ok", "ExtrinsicFailed"}
Dropped == "dropped"

\* Slip: only the extrinsics named in the list have an error.
ErrorClassNamedOnly(m) == IF m = "mockCddRegisterDid" THEN "Validation" ELSE "none"

\* The error class of a failed extrinsic.
ErrorClass(m) == IF m = "mockCddRegisterDid" THEN "Validation" ELSE "Internal"

Promises == {"pending", "ok", "Validation", "Internal"}

Init ==
    /\ pc = [c \in Calls |-> "idle"]
    /\ nonce = [c \in Calls |-> 0]
    /\ inPool = {}
    /\ chain = <<>>
    /\ blocks = [c \in Calls |-> <<>>]
    /\ receipts = [c \in Calls |-> <<>>]
    /\ promise = [c \in Calls |-> "pending"]
    /\ forks = 0

Goto(c, from, to) == pc[c] = from /\ pc' = [pc EXCEPT ![c] = to]

ExecTransaction(c) ==
    /\ Goto(c, "idle", "nextIndex")
    /\ UNCHANGED <<nonce, inPool, chain, blocks, receipts, promise, forks>>

\* The signer's nonce on the chain.
index == Len(chain)

Taken == {nonce[d] : d \in inPool}

\* system_accountNextIndex counts the extrinsics in the pool.
NextIndex ==
    CHOOSE n \in index .. index + Cardinality(Calls) :
        n \notin Taken /\ index .. n - 1 \subseteq Taken

GetNextIndex(c) ==
    /\ Goto(c, "nextIndex", "sending")
    /\ nonce' = [nonce EXCEPT ![c] = NextIndex]
    /\ UNCHANGED <<inPool, chain, blocks, receipts, promise, forks>>

Send(c) ==
    /\ Goto(c, "sending", "subscribed")
    /\ nonce[c] >= index /\ nonce[c] \notin Taken
    /\ inPool' = inPool \cup {c}
    /\ UNCHANGED <<nonce, chain, blocks, receipts, promise, forks>>

\* signAndSend rejects; only `unsub` knows, and the process logs it.
SendFails(c) ==
    /\ Goto(c, "sending", "turnedDown")
    /\ nonce[c] < index \/ nonce[c] \in Taken
    /\ UNCHANGED <<nonce, inPool, chain, blocks, receipts, promise, forks>>

-----------------------------------------------------------------------------
(* The chain. *)

Notify(c, status) ==
    receipts' = IF pc[c] = "subscribed"
                THEN [receipts EXCEPT ![c] = Append(@, status)] ELSE receipts

IncludeInBlock(c, outcome) ==
    /\ c \in inPool /\ nonce[c] = index
    /\ inPool' = inPool \ {c}
    /\ chain' = Append(chain, c)
    /\ blocks' = [blocks EXCEPT ![c] = Append(@, outcome)]
    /\ Notify(c, outcome)
    /\ UNCHANGED <<pc, nonce, promise, forks>>

\* A fork takes the last block back, and its extrinsic returns to the pool.
Retract(c) ==
    /\ forks < MaxForks
    /\ chain # <<>> /\ c = chain[index]
    /\ forks' = forks + 1
    /\ chain' = SubSeq(chain, 1, index - 1)
    /\ inPool' = inPool \cup {c}
    /\ UNCHANGED <<pc, nonce, blocks, receipts, promise>>

\* Dropped, invalid or usurped: a receipt, but not one of isInBlock.
Drop(c) ==
    /\ Lossy /\ c \in inPool
    /\ inPool' = inPool \ {c}
    /\ Notify(c, Dropped)
    /\ UNCHANGED <<pc, nonce, chain, blocks, promise, forks>>

-----------------------------------------------------------------------------
(* The callback. *)

\* Slip: the promise is resolved before the receipt is searched for errors.
SettleResolveFirst(c, status) == "ok"

\* reject comes first; the resolve that follows it then has no effect.
Settle(c, status) ==
    IF status = "ExtrinsicFailed" THEN ErrorClass(Method[c]) ELSE "ok"

\* Slip: a receipt of a later block overrides.
SettlesAlways(c, status) == status \in Outcomes

\* Slip: an error is logged where it is found.
SettlesOnOkOnly(c, status) == status = "ok" /\ promise[c] = "pending"

\* A promise is settled once.
Settles(c, status) == status \in Outcomes /\ promise[c] = "pending"

Receipt(c) ==
    /\ pc[c] = "subscribed" /\ receipts[c] # <<>>
    /\ LET status == Head(receipts[c])
       IN  promise' = IF Settles(c, status)
                      THEN [promise EXCEPT ![c] = Settle(c, status)] ELSE promise
    /\ receipts' = [receipts EXCEPT ![c] = Tail(@)]
    /\ UNCHANGED <<pc, nonce, inPool, chain, blocks, forks>>

\* Only the success handler calls unsub: a failed call stays subscribed.
Unsubscribe(c) ==
    /\ promise[c] = "ok"
    /\ Goto(c, "subscribed", "unsubscribed")
    /\ receipts' = [receipts EXCEPT ![c] = <<>>]
    /\ UNCHANGED <<nonce, inPool, chain, blocks, promise, forks>>

-----------------------------------------------------------------------------
NodeStep(c) == GetNextIndex(c) \/ Send(c) \/ SendFails(c) \/ Receipt(c) \/ Unsubscribe(c)
Include(c) == \E outcome \in Outcomes : IncludeInBlock(c, outcome)

Next == \E c \in Calls :
    ExecTransaction(c) \/ NodeStep(c) \/ Include(c) \/ Retract(c) \/ Drop(c)

Spec == Init /\ [][Next]_vars

\* Callbacks run, and an extrinsic that can be included is.
Fairness == \A c \in Calls : WF_vars(NodeStep(c)) /\ WF_vars(Include(c))

FairSpec == Spec /\ Fairness

-----------------------------------------------------------------------------
(* Properties. *)

\* Shapes of the state; an extrinsic in the pool was sent, and however many are
\* dropped or taken back, no nonce is left out: there is one for every call.
TypeOK ==
    /\ pc \in [Calls -> PcStates]
    /\ nonce \in [Calls -> 0 .. Cardinality(Calls) - 1]
    /\ inPool \subseteq {c \in Calls : pc[c] \in {"subscribed", "unsubscribed"}}
    /\ chain \in Seq(Calls)
    /\ blocks \in [Calls -> Seq(Outcomes)]
    /\ receipts \in [Calls -> Seq(Outcomes \cup {Dropped})]
    /\ promise \in [Calls -> Promises]
    /\ forks \in 0 .. MaxForks

\* What the caller learns is the outcome in the first block that had the
\* extrinsic, in the error class of its method, even if a fork includes it
\* again with another outcome; before there was a block it learns nothing.
FirstBlockDecides ==
    \A c \in Calls : promise[c] # "pending" =>
        /\ blocks[c] # <<>>
        /\ promise[c] = IF Head(blocks[c]) = "ok" THEN "ok" ELSE ErrorClass(Method[c])

\* Why a call may hang: another one was signed with the same nonce, or the
\* pool has dropped an extrinsic with this nonce or a lower one.
MayHang(c) ==
    \E d \in Calls :
        \/ d # c /\ nonce[d] = nonce[c] /\ pc[d] \notin {"idle", "nextIndex"}
        \/ /\ pc[d] \in {"subscribed", "unsubscribed"} /\ d \notin inPool
           /\ nonce[d] \in index .. nonce[c]

\* A call that has no receipt to look at and waits for none of these reasons is
\* in the pool, and so is the extrinsic that the chain takes next.
WaitingIsMoving ==
    \A c \in Calls :
        /\ pc[c] \in {"subscribed", "turnedDown"} /\ promise[c] = "pending"
        /\ receipts[c] = <<>> /\ ~MayHang(c)
        => c \in inPool /\ \E d \in inPool : nonce[d] = index

\* No call hangs for any other reason.
OthersAreSettled ==
    \A c \in Calls :
        []<>(pc[c] # "idle" /\ promise[c] = "pending" => pc[c] # "nextIndex" /\ MayHang(c))
=============================================================================
