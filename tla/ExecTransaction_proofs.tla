----------------------- MODULE ExecTransaction_proofs -----------------------
(***************************************************************************)
(* What a caller of execTransaction learns is what the first block did,    *)
(* for any number of calls, of forks and of dropped extrinsics.  While the *)
(* promise is pending, no receipt of a block has been seen; so the first   *)
(* of those still under way is that of the first block (Queued).           *)
(***************************************************************************)
EXTENDS ExecTransaction, FiniteSetTheorems, WellFoundedInduction, TLAPS

\* The part of the types that does not count nonces.
Typed ==
    /\ pc \in [Calls -> PcStates]
    /\ inPool \subseteq Calls
    /\ blocks \in [Calls -> Seq(Outcomes)]
    /\ receipts \in [Calls -> Seq(Outcomes \cup {Dropped})]
    /\ promise \in [Calls -> Promises]

Sent(c) == pc[c] \in {"subscribed", "unsubscribed"}

\* Nothing comes of an extrinsic that was not sent, and only a settled call
\* gives up its subscription.
Phases ==
    \A c \in Calls :
        /\ c \in inPool \/ blocks[c] # <<>> \/ receipts[c] # <<>> \/ promise[c] # "pending" =>
              Sent(c)
        /\ pc[c] = "unsubscribed" => promise[c] # "pending"

\* The k-th receipt under way is the first one of a block.
IsFirst(c, k) ==
    /\ k \in DOMAIN receipts[c] /\ receipts[c][k] \in Outcomes
    /\ \A j \in 1 .. k - 1 : receipts[c][j] = Dropped

\* Until the promise settles, the first block's receipt is still under way,
\* and no other block's comes before it.
Queued ==
    \A c \in Calls : promise[c] = "pending" =>
        /\ \A k : IsFirst(c, k) => blocks[c] # <<>> /\ receipts[c][k] = Head(blocks[c])
        /\ blocks[c] # <<>> => \E k \in DOMAIN receipts[c] : receipts[c][k] \in Outcomes

IInv == Typed /\ Phases /\ Queued /\ FirstBlockDecides

-----------------------------------------------------------------------------
(***************************************************************************)
(* Nonces.  The calls on the chain have the nonces from 0 on, in order, so *)
(* that a fork can take the last one back into the pool without meeting    *)
(* another there; and whatever NextIndex returns, each lower nonce is that *)
(* of a call that was sent.                                                *)
(***************************************************************************)

NonceTypes == nonce \in [Calls -> Nat] /\ chain \in Seq(Calls) /\ forks \in 0 .. MaxForks

Chained ==
    \A k \in 1 .. Len(chain) :
        /\ Sent(chain[k]) /\ chain[k] \notin inPool
        /\ nonce[chain[k]] = k - 1
        /\ blocks[chain[k]] # <<>>

Pooled ==
    /\ \A c \in inPool : nonce[c] >= index
    /\ \A c, d \in inPool : nonce[c] = nonce[d] => c = d

\* No nonce below a signed one is missing.
Preceded ==
    \A c \in Calls : pc[c] \notin {"idle", "nextIndex"} =>
        \A n \in 0 .. nonce[c] - 1 : \E d \in Calls : Sent(d) /\ nonce[d] = n

\* An extrinsic is turned down for another one.
Rivalled ==
    \A c \in Calls : pc[c] = "turnedDown" =>
        \E d \in Calls : Sent(d) /\ nonce[d] = nonce[c]

InRange == nonce \in [Calls -> 0 .. Cardinality(Calls) - 1]

NonceInv == NonceTypes /\ Chained /\ Pooled /\ Preceded /\ Rivalled /\ InRange

-----------------------------------------------------------------------------
LEMMA InitImpliesIInv == Init => IInv
  BY DEF Init, IInv, Typed, Phases, Queued, FirstBlockDecides, IsFirst, PcStates, Promises, Sent

\* The calls on their way to the pool.
LEMMA SendingIInv ==
    ASSUME IInv, NEW c \in Calls,
           ExecTransaction(c) \/ GetNextIndex(c) \/ Send(c) \/ SendFails(c)
    PROVE  IInv'
<1>1. /\ UNCHANGED <<blocks, receipts, promise>>
      /\ pc[c] \in {"idle", "nextIndex", "sending"}
      /\ \E to \in {"nextIndex", "sending", "subscribed", "turnedDown"} :
            pc' = [pc EXCEPT ![c] = to] /\ (inPool' = inPool \/ to = "subscribed")
      /\ inPool' = inPool \/ inPool' = inPool \cup {c}
  BY DEF ExecTransaction, GetNextIndex, Send, SendFails, Goto
<1>2. Typed'
  BY <1>1 DEF IInv, Typed, PcStates
<1>3. Phases'
  BY <1>1 DEF IInv, Typed, Phases, Sent
<1>4. Queued' /\ FirstBlockDecides'
  BY <1>1 DEF IInv, Queued, FirstBlockDecides, IsFirst
<1> QED
  BY <1>2, <1>3, <1>4 DEF IInv

\* A receipt that is appended is not the first if there was one before.
LEMMA FirstStaysFirst ==
    ASSUME Typed, NEW c \in Calls, NEW status \in Outcomes \cup {Dropped},
           receipts'[c] = Append(receipts[c], status),
           NEW k, IsFirst(c, k)'
    PROVE  \/ IsFirst(c, k) /\ receipts'[c][k] = receipts[c][k]
           \/ /\ receipts'[c][k] = status /\ status \in Outcomes
              /\ \A j \in DOMAIN receipts[c] : receipts[c][j] = Dropped
<1>1. receipts[c] \in Seq(Outcomes \cup {Dropped})
  BY DEF Typed
<1>2. /\ DOMAIN receipts'[c] = 1 .. Len(receipts[c]) + 1
      /\ DOMAIN receipts[c] = 1 .. Len(receipts[c]) /\ Len(receipts[c]) \in Nat
      /\ receipts'[c][Len(receipts[c]) + 1] = status
      /\ \A j \in 1 .. Len(receipts[c]) : receipts'[c][j] = receipts[c][j]
  BY <1>1
<1>3. CASE k = Len(receipts[c]) + 1
  BY <1>2, <1>3 DEF IsFirst
<1>4. CASE k \in 1 .. Len(receipts[c])
  BY <1>2, <1>4 DEF IsFirst
<1> QED
  BY <1>2, <1>3, <1>4 DEF IsFirst

LEMMA IncludeIInv ==
    ASSUME IInv, NEW c \in Calls, NEW outcome \in Outcomes, IncludeInBlock(c, outcome)
    PROVE  IInv'
<1>0. /\ c \in inPool /\ inPool' = inPool \ {c} /\ UNCHANGED <<pc, promise>>
      /\ blocks' = [blocks EXCEPT ![c] = Append(@, outcome)]
      /\ receipts' = IF pc[c] = "subscribed"
                     THEN [receipts EXCEPT ![c] = Append(@, outcome)] ELSE receipts
  BY DEF IncludeInBlock, Notify
<1>1. /\ blocks[c] \in Seq(Outcomes) /\ receipts[c] \in Seq(Outcomes \cup {Dropped})
      /\ blocks'[c] = Append(blocks[c], outcome) /\ Sent(c)
      /\ \A d \in Calls \ {c} : blocks'[d] = blocks[d] /\ receipts'[d] = receipts[d]
  BY <1>0 DEF IInv, Typed, Phases
<1>2. /\ blocks'[c] \in Seq(Outcomes) /\ blocks'[c] # <<>>
      /\ Head(blocks'[c]) = IF blocks[c] = <<>> THEN outcome ELSE Head(blocks[c])
  BY <1>1
<1>3. Typed'
  BY <1>0, <1>1 DEF IInv, Typed
<1>4. Phases'
  BY <1>0, <1>1 DEF IInv, Phases, Sent
<1>5. Queued'
  <2>1. ASSUME NEW d \in Calls, d # c, promise'[d] = "pending"
        PROVE  /\ \A k : IsFirst(d, k)' =>
                     blocks'[d] # <<>> /\ receipts'[d][k] = Head(blocks'[d])
               /\ blocks'[d] # <<>> =>
                     \E k \in DOMAIN receipts'[d] : receipts'[d][k] \in Outcomes
    BY <1>0, <1>1, <2>1 DEF IInv, Queued, IsFirst
  <2>2. ASSUME promise'[c] = "pending"
        PROVE  /\ \A k : IsFirst(c, k)' =>
                     blocks'[c] # <<>> /\ receipts'[c][k] = Head(blocks'[c])
               /\ \E k \in DOMAIN receipts'[c] : receipts'[c][k] \in Outcomes
    <3>1. receipts'[c] = Append(receipts[c], outcome) /\ promise[c] = "pending"
      BY <1>0, <1>1, <2>2 DEF IInv, Typed, Phases, Sent
    <3>2. ASSUME NEW k, IsFirst(c, k)'
          PROVE  receipts'[c][k] = Head(blocks'[c])
      <4>1. CASE IsFirst(c, k) /\ receipts'[c][k] = receipts[c][k]
        BY <1>2, <3>1, <4>1 DEF IInv, Queued
      <4>2. CASE /\ receipts'[c][k] = outcome
                 /\ \A j \in DOMAIN receipts[c] : receipts[c][j] = Dropped
        <5>1. blocks[c] = <<>>
          BY <3>1, <4>2 DEF IInv, Queued, Dropped, Outcomes
        <5> QED
          BY <1>2, <4>2, <5>1
      <4> QED
        BY <3>1, <3>2, <4>1, <4>2, FirstStaysFirst DEF IInv
    <3>3. /\ Len(receipts[c]) + 1 \in DOMAIN receipts'[c]
          /\ receipts'[c][Len(receipts[c]) + 1] = outcome
      BY <1>1, <3>1
    <3> QED
      BY <1>2, <3>2, <3>3
  <2> QED
    BY <2>1, <2>2 DEF Queued
<1>6. FirstBlockDecides'
  BY <1>0, <1>1, <1>2 DEF IInv, FirstBlockDecides
<1> QED
  BY <1>3, <1>4, <1>5, <1>6 DEF IInv

LEMMA RetractIInv ==
    ASSUME IInv, NonceInv, NEW c \in Calls, Retract(c)
    PROVE  IInv'
<1>1. /\ inPool' = inPool \cup {c} /\ UNCHANGED <<pc, blocks, receipts, promise>>
      /\ chain # <<>> /\ c = chain[index]
  BY DEF Retract
<1>2. Sent(c)
  BY <1>1 DEF NonceInv, NonceTypes, Chained, index
<1> QED
  BY <1>1, <1>2 DEF IInv, Typed, Phases, Sent, Queued, FirstBlockDecides, IsFirst

LEMMA DropIInv ==
    ASSUME IInv, NEW c \in Calls, Drop(c)
    PROVE  IInv'
<1>0. /\ c \in inPool /\ inPool' = inPool \ {c} /\ UNCHANGED <<pc, promise, blocks>>
      /\ receipts' = IF pc[c] = "subscribed"
                     THEN [receipts EXCEPT ![c] = Append(@, Dropped)] ELSE receipts
  BY DEF Drop, Notify
<1>1. /\ receipts[c] \in Seq(Outcomes \cup {Dropped}) /\ Sent(c)
      /\ \A d \in Calls \ {c} : receipts'[d] = receipts[d]
  BY <1>0 DEF IInv, Typed, Phases
<1>2. Typed'
  BY <1>0, <1>1 DEF IInv, Typed
<1>3. Phases'
  BY <1>0, <1>1 DEF IInv, Phases, Sent
<1>4. Queued'
  <2>1. ASSUME NEW d \in Calls, receipts'[d] = receipts[d], promise'[d] = "pending"
        PROVE  /\ \A k : IsFirst(d, k)' =>
                     blocks'[d] # <<>> /\ receipts'[d][k] = Head(blocks'[d])
               /\ blocks'[d] # <<>> =>
                     \E k \in DOMAIN receipts'[d] : receipts'[d][k] \in Outcomes
    BY <1>0, <2>1 DEF IInv, Queued, IsFirst
  <2>2. ASSUME receipts'[c] = Append(receipts[c], Dropped), promise'[c] = "pending"
        PROVE  /\ \A k : IsFirst(c, k)' =>
                     blocks'[c] # <<>> /\ receipts'[c][k] = Head(blocks'[c])
               /\ blocks'[c] # <<>> =>
                     \E k \in DOMAIN receipts'[c] : receipts'[c][k] \in Outcomes
    <3>1. Dropped \notin Outcomes
      BY DEF Dropped, Outcomes
    <3>2. \A k : IsFirst(c, k)' => IsFirst(c, k) /\ receipts'[c][k] = receipts[c][k]
      BY <2>2, <3>1, FirstStaysFirst DEF IInv
    <3>3. \A k \in DOMAIN receipts[c] : k \in DOMAIN receipts'[c] /\ receipts'[c][k] = receipts[c][k]
      BY <1>1, <2>2
    <3> QED
      BY <1>0, <2>2, <3>2, <3>3 DEF IInv, Queued
  <2>3. receipts'[c] = receipts[c] \/ receipts'[c] = Append(receipts[c], Dropped)
    BY <1>0 DEF IInv, Typed
  <2> QED
    BY <1>1, <2>1, <2>2, <2>3 DEF Queued
<1>5. FirstBlockDecides'
  BY <1>0 DEF IInv, FirstBlockDecides
<1> QED
  BY <1>2, <1>3, <1>4, <1>5 DEF IInv

\* After a receipt that is not of a block, the first of a block is one nearer.
LEMMA FirstMovesUp ==
    ASSUME Typed, NEW c \in Calls, receipts[c] # <<>>, Head(receipts[c]) = Dropped,
           receipts'[c] = Tail(receipts[c])
    PROVE  /\ \A k : IsFirst(c, k)' =>
                 IsFirst(c, k + 1) /\ receipts'[c][k] = receipts[c][k + 1]
           /\ \A k \in DOMAIN receipts[c] : receipts[c][k] \in Outcomes =>
                 k - 1 \in DOMAIN receipts'[c] /\ receipts'[c][k - 1] = receipts[c][k]
<1>1. /\ receipts[c] \in Seq(Outcomes \cup {Dropped}) /\ Len(receipts[c]) \in Nat \ {0}
      /\ DOMAIN receipts[c] = 1 .. Len(receipts[c])
      /\ DOMAIN receipts'[c] = 1 .. Len(receipts[c]) - 1
      /\ \A k \in 1 .. Len(receipts[c]) - 1 : receipts'[c][k] = receipts[c][k + 1]
      /\ receipts[c][1] = Dropped
  BY DEF Typed
<1>2. Dropped \notin Outcomes
  BY DEF Dropped, Outcomes
<1>3. ASSUME NEW k, IsFirst(c, k)'
      PROVE  IsFirst(c, k + 1) /\ receipts'[c][k] = receipts[c][k + 1]
  <2>1. /\ k \in 1 .. Len(receipts[c]) - 1 /\ receipts'[c][k] \in Outcomes
        /\ \A j \in 1 .. k - 1 : receipts'[c][j] = Dropped
    BY <1>1, <1>3 DEF IsFirst
  <2>2. \A j \in 1 .. (k + 1) - 1 : receipts[c][j] = Dropped
    <3> SUFFICES ASSUME NEW j \in 1 .. (k + 1) - 1 PROVE receipts[c][j] = Dropped
      OBVIOUS
    <3>1. CASE j = 1
      BY <1>1, <3>1
    <3>2. CASE j # 1
      <4>1. j - 1 \in 1 .. k - 1 /\ j - 1 \in 1 .. Len(receipts[c]) - 1 /\ (j - 1) + 1 = j
        BY <1>1, <2>1, <3>2
      <4> QED
        BY <1>1, <2>1, <4>1
    <3> QED
      BY <3>1, <3>2
  <2> QED
    BY <1>1, <2>1, <2>2 DEF IsFirst
<1>4. ASSUME NEW k \in DOMAIN receipts[c], receipts[c][k] \in Outcomes
      PROVE  k - 1 \in DOMAIN receipts'[c] /\ receipts'[c][k - 1] = receipts[c][k]
  <2>1. k \in 2 .. Len(receipts[c])
    BY <1>1, <1>2, <1>4
  <2>2. k - 1 \in 1 .. Len(receipts[c]) - 1 /\ (k - 1) + 1 = k
    BY <1>1, <2>1
  <2> QED
    BY <1>1, <2>2
<1> QED
  BY <1>3, <1>4

LEMMA ReceiptIInv ==
    ASSUME IInv, NEW c \in Calls, Receipt(c)
    PROVE  IInv'
<1> DEFINE status == Head(receipts[c])
<1>0. /\ pc[c] = "subscribed" /\ receipts[c] # <<>> /\ UNCHANGED <<pc, inPool, blocks>>
      /\ receipts' = [receipts EXCEPT ![c] = Tail(@)]
      /\ promise' = IF Settles(c, status)
                    THEN [promise EXCEPT ![c] = Settle(c, status)] ELSE promise
  BY DEF Receipt
<1>1. /\ receipts[c] \in Seq(Outcomes \cup {Dropped}) /\ receipts'[c] = Tail(receipts[c])
      /\ status \in Outcomes \cup {Dropped} /\ status = receipts[c][1] /\ 1 \in DOMAIN receipts[c]
      /\ \A d \in Calls \ {c} : receipts'[d] = receipts[d] /\ promise'[d] = promise[d]
  BY <1>0 DEF IInv, Typed
<1>2. Settle(c, status) \in Promises \ {"pending"}
  BY DEF Settle, ErrorClass, Promises
<1> HIDE DEF status
<1>3. Typed'
  BY <1>0, <1>1, <1>2 DEF IInv, Typed
<1>4. Phases'
  BY <1>0, <1>1, <1>2 DEF IInv, Typed, Phases, Sent
<1>5. Queued'
  <2>1. ASSUME NEW d \in Calls, d # c, promise'[d] = "pending"
        PROVE  /\ \A k : IsFirst(d, k)' =>
                     blocks'[d] # <<>> /\ receipts'[d][k] = Head(blocks'[d])
               /\ blocks'[d] # <<>> =>
                     \E k \in DOMAIN receipts'[d] : receipts'[d][k] \in Outcomes
    BY <1>0, <1>1, <2>1 DEF IInv, Queued, IsFirst
  <2>2. ASSUME promise'[c] = "pending"
        PROVE  /\ \A k : IsFirst(c, k)' =>
                     blocks'[c] # <<>> /\ receipts'[c][k] = Head(blocks'[c])
               /\ blocks'[c] # <<>> =>
                     \E k \in DOMAIN receipts'[c] : receipts'[c][k] \in Outcomes
    <3>s. ~Settles(c, status)
      <4> SUFFICES ASSUME Settles(c, status) PROVE FALSE
        OBVIOUS
      <4>1. promise'[c] = Settle(c, status)
        BY <1>0 DEF IInv, Typed
      <4> QED
        BY <1>2, <2>2, <4>1
    <3>1. promise[c] = "pending"
      BY <1>0, <2>2, <3>s
    <3>2. Head(receipts[c]) = Dropped
      BY <1>1, <3>1, <3>s DEF Settles, status
    <3>3. /\ \A k : IsFirst(c, k)' =>
                 IsFirst(c, k + 1) /\ receipts'[c][k] = receipts[c][k + 1]
          /\ \A k \in DOMAIN receipts[c] : receipts[c][k] \in Outcomes =>
                 k - 1 \in DOMAIN receipts'[c] /\ receipts'[c][k - 1] = receipts[c][k]
      BY <1>0, <1>1, <3>2, FirstMovesUp DEF IInv
    <3>4. /\ \A k : IsFirst(c, k) => blocks[c] # <<>> /\ receipts[c][k] = Head(blocks[c])
          /\ blocks[c] # <<>> => \E k \in DOMAIN receipts[c] : receipts[c][k] \in Outcomes
      BY <3>1 DEF IInv, Queued
    <3> QED
      BY <1>0, <3>3, <3>4
  <2> QED
    BY <2>1, <2>2 DEF Queued
<1>6. FirstBlockDecides'
  <2>1. CASE ~Settles(c, status)
    BY <1>0, <2>1 DEF IInv, FirstBlockDecides
  <2>2. CASE Settles(c, status)
    <3>1. IsFirst(c, 1) /\ promise[c] = "pending"
      BY <1>1, <2>2 DEF IsFirst, Settles
    <3>2. blocks[c] # <<>> /\ status = Head(blocks[c])
      BY <1>1, <3>1 DEF IInv, Queued
    <3>3. promise'[c] = IF Head(blocks[c]) = "ok" THEN "ok" ELSE ErrorClass(Method[c])
      BY <1>0, <2>2, <3>2 DEF IInv, Typed, Settle, Settles, Outcomes
    <3> QED
      BY <1>0, <1>1, <3>2, <3>3 DEF IInv, FirstBlockDecides
  <2> QED
    BY <2>1, <2>2
<1> QED
  BY <1>3, <1>4, <1>5, <1>6 DEF IInv

LEMMA UnsubscribeIInv ==
    ASSUME IInv, NEW c \in Calls, Unsubscribe(c)
    PROVE  IInv'
<1>0. /\ promise[c] = "ok" /\ pc[c] = "subscribed" /\ pc' = [pc EXCEPT ![c] = "unsubscribed"]
      /\ receipts' = [receipts EXCEPT ![c] = <<>>] /\ UNCHANGED <<inPool, blocks, promise>>
  BY DEF Unsubscribe, Goto
<1>1. Typed'
  BY <1>0 DEF IInv, Typed, PcStates
<1>2. Phases'
  BY <1>0 DEF IInv, Typed, Phases, Sent
<1>3. Queued'
  <2>1. \A d \in Calls : promise'[d] = "pending" => d # c /\ receipts'[d] = receipts[d]
    BY <1>0 DEF IInv, Typed
  <2> QED
    BY <1>0, <2>1 DEF IInv, Queued, IsFirst
<1>4. FirstBlockDecides'
  BY <1>0 DEF IInv, FirstBlockDecides
<1> QED
  BY <1>1, <1>2, <1>3, <1>4 DEF IInv

LEMMA StepKeepsIInv == IInv /\ NonceInv /\ [Next]_vars => IInv'
<1> SUFFICES ASSUME IInv, NonceInv, [Next]_vars PROVE IInv'
  OBVIOUS
<1>1. CASE UNCHANGED vars
  BY <1>1 DEF vars, IInv, Typed, Phases, Sent, Queued, IsFirst, FirstBlockDecides
<1>2. CASE Next
  BY <1>2, SendingIInv, IncludeIInv, RetractIInv, DropIInv, ReceiptIInv, UnsubscribeIInv
  DEF Next, NodeStep, Include
<1> QED
  BY <1>1, <1>2

-----------------------------------------------------------------------------
(* Nonces. *)

LEMMA NonceInvInitially == Init => NonceInv
<1> SUFFICES ASSUME Init PROVE NonceInv
  OBVIOUS
<1>1. NonceTypes /\ Chained /\ Pooled /\ Preceded /\ Rivalled
  BY ExecAssumption DEF Init, NonceTypes, Chained, Pooled, Preceded, Rivalled
<1>2. InRange
  <2> SUFFICES ASSUME NEW c \in Calls PROVE 0 \in 0 .. Cardinality(Calls) - 1
    BY DEF Init, InRange
  <2>1. Cardinality(Calls) \in Nat /\ Cardinality(Calls) # 0
    BY ExecAssumption, FS_CardinalityType, FS_EmptySet
  <2> QED
    BY <2>1
<1> QED
  BY <1>1, <1>2 DEF NonceInv

\* Numbers from 0 to m, each the value of f at one of D.
LEMMA Pigeonhole ==
    ASSUME NEW D, IsFiniteSet(D), NEW f, NEW m \in Nat,
           \A n \in 0 .. m : \E d \in D : f[d] = n
    PROVE  m < Cardinality(D)
<1> DEFINE E == {d \in D : f[d] \in 0 .. m}
           g == [d \in E |-> f[d]]
<1>1. IsFiniteSet(E) /\ Cardinality(E) \in Nat /\ Cardinality(E) <= Cardinality(D)
      /\ Cardinality(D) \in Nat
  BY FS_Subset, FS_CardinalityType
<1>2. g \in Surjection(E, 0 .. m)
  BY DEF Surjection
<1>3. Cardinality(0 .. m) = m + 1
  BY FS_Interval
<1>4. Cardinality(0 .. m) <= Cardinality(E)
  BY <1>1, <1>2, FS_Surjection
<1> QED
  BY <1>1, <1>3, <1>4

\* The nonces that were used up are those of the calls on the chain.
LEMMA OnTheChain ==
    ASSUME NonceInv, NEW n \in 0 .. index - 1
    PROVE  /\ chain[n + 1] \in Calls /\ Sent(chain[n + 1])
           /\ nonce[chain[n + 1]] = n /\ blocks[chain[n + 1]] # <<>>
<1>1. n + 1 \in 1 .. Len(chain) /\ (n + 1) - 1 = n
  BY DEF NonceInv, NonceTypes, index
<1> QED
  BY <1>1 DEF NonceInv, NonceTypes, Chained

\* What the node answers: a nonce that is not in use, and none is left out.
LEMMA NextIndexFollows ==
    ASSUME Phases, NonceInv, inPool \subseteq Calls
    PROVE  /\ NextIndex \in Nat /\ NextIndex >= index /\ NextIndex \notin Taken
           /\ \A n \in 0 .. NextIndex - 1 : \E d \in Calls : Sent(d) /\ nonce[d] = n
<1> DEFINE top == Cardinality(Calls)
           Free == {n \in index .. index + top : n \notin Taken}
<1>1. index \in Nat /\ top \in Nat
  BY ExecAssumption, FS_CardinalityType DEF NonceInv, NonceTypes, index
<1>2. \A n \in Taken : \E d \in Calls : Sent(d) /\ nonce[d] = n
  BY DEF Taken, Phases
<1>3. \A n \in 0 .. index - 1 : \E d \in Calls : Sent(d) /\ nonce[d] = n
  BY OnTheChain
<1> HIDE DEF top
<1>4. Free # {}
  <2> SUFFICES ASSUME Free = {} PROVE FALSE
    OBVIOUS
  <2>1. \A n \in 0 .. index + top : \E d \in Calls : nonce[d] = n
    <3> SUFFICES ASSUME NEW n \in 0 .. index + top PROVE \E d \in Calls : nonce[d] = n
      OBVIOUS
    <3>1. CASE n \in 0 .. index - 1
      BY <1>3, <3>1
    <3>2. CASE n \in index .. index + top
      BY <1>2, <3>2
    <3> QED
      BY <1>1, <3>1, <3>2
  <2>2. index + top \in Nat
    BY <1>1
  <2>3. index + top < Cardinality(Calls)
    BY <2>1, <2>2, ExecAssumption, Pigeonhole
  <2> QED
    BY <1>1, <2>3 DEF top
<1> DEFINE Less == {ss \in Nat \X Nat : ss[1] < ss[2]}
<1>5. PICK i \in Free : \A j \in Free : <<j, i>> \notin Less
  <2>1. IsWellFoundedOn(Less, Nat)
    BY NatLessThanWellFounded DEF OpToRel
  <2>2. Free \in SUBSET Nat
    BY <1>1
  <2> QED
    BY <1>4, <2>1, <2>2, WFMin
<1>6. /\ i \in index .. index + Cardinality(Calls)
      /\ i \notin Taken /\ index .. i - 1 \subseteq Taken
  <2>1. i \in index .. index + top /\ i \notin Taken
    BY <1>5
  <2>2. ASSUME NEW j \in index .. i - 1, j \notin Taken PROVE FALSE
    <3>1. j \in Free /\ j < i /\ <<j, i>> \in Nat \X Nat
      BY <1>1, <2>1, <2>2
    <3> QED
      BY <1>5, <3>1
  <2> QED
    BY <2>1, <2>2 DEF top
<1>7. /\ NextIndex \in index .. index + Cardinality(Calls)
      /\ NextIndex \notin Taken /\ index .. NextIndex - 1 \subseteq Taken
  BY <1>6, Zenon DEF NextIndex
<1>8. ASSUME NEW n \in 0 .. NextIndex - 1
      PROVE  \E d \in Calls : Sent(d) /\ nonce[d] = n
  <2>1. NextIndex \in Nat
    BY <1>1, <1>7, ExecAssumption, FS_CardinalityType
  <2>2. n \in 0 .. index - 1 \/ n \in index .. NextIndex - 1
    BY <1>1, <2>1
  <2> QED
    BY <1>2, <1>3, <1>7, <2>2
<1> QED
  BY <1>1, <1>7, <1>8, ExecAssumption, FS_CardinalityType

\* A call that is not sent has less nonces before it than there are others.
LEMMA NextIndexInRange ==
    ASSUME Phases, NonceInv, inPool \subseteq Calls, NEW c \in Calls, ~Sent(c)
    PROVE  NextIndex \in 0 .. Cardinality(Calls) - 1
<1>1. /\ IsFiniteSet(Calls \ {c}) /\ Cardinality(Calls \ {c}) = Cardinality(Calls) - 1
      /\ Cardinality(Calls \ {c}) \in Nat
  BY ExecAssumption, FS_RemoveElement, FS_CardinalityType
<1>2. /\ NextIndex \in Nat
      /\ \A n \in 0 .. NextIndex - 1 : \E d \in Calls \ {c} : nonce[d] = n
  BY NextIndexFollows
<1>3. CASE NextIndex = 0
  BY <1>1, <1>3
<1>4. CASE NextIndex # 0
  <2>1. NextIndex - 1 \in Nat
    BY <1>2, <1>4
  <2>2. NextIndex - 1 < Cardinality(Calls \ {c})
    BY <1>1, <1>2, <2>1, Pigeonhole
  <2> QED
    BY <1>1, <1>2, <2>2
<1> QED
  BY <1>3, <1>4

-----------------------------------------------------------------------------
(* The steps. *)

LEMMA ExecTransactionNonces ==
    ASSUME IInv, NonceInv, NEW c \in Calls, ExecTransaction(c)
    PROVE  NonceInv'
<1>1. /\ pc[c] = "idle" /\ pc' = [pc EXCEPT ![c] = "nextIndex"]
      /\ UNCHANGED <<nonce, inPool, chain, blocks, forks>> /\ pc \in [Calls -> PcStates]
  BY DEF ExecTransaction, Goto, IInv, Typed
<1>2. \A d \in Calls : Sent(d)' <=> Sent(d)
  BY <1>1 DEF Sent
<1>3. NonceTypes' /\ InRange'
  BY <1>1 DEF NonceInv, NonceTypes, InRange
<1>4. Chained'
  BY <1>1, <1>2 DEF NonceInv, NonceTypes, Chained
<1>5. Pooled'
  BY <1>1 DEF NonceInv, Pooled, index
<1>6. Preceded' /\ Rivalled'
  BY <1>1, <1>2 DEF NonceInv, Preceded, Rivalled
<1> QED
  BY <1>3, <1>4, <1>5, <1>6 DEF NonceInv

LEMMA GetNextIndexNonces ==
    ASSUME IInv, NonceInv, NEW c \in Calls, GetNextIndex(c)
    PROVE  NonceInv'
<1>1. /\ pc[c] = "nextIndex" /\ pc' = [pc EXCEPT ![c] = "sending"]
      /\ nonce' = [nonce EXCEPT ![c] = NextIndex]
      /\ UNCHANGED <<inPool, chain, blocks, forks>> /\ pc \in [Calls -> PcStates]
  BY DEF GetNextIndex, Goto, IInv, Typed
<1>2. /\ \A d \in Calls : Sent(d)' <=> Sent(d)
      /\ ~Sent(c) /\ \A d \in Calls \ {c} : nonce'[d] = nonce[d]
      /\ nonce'[c] = NextIndex
  BY <1>1 DEF Sent, NonceInv, NonceTypes
<1>3. /\ Phases /\ inPool \subseteq Calls /\ c \notin inPool
      /\ \A d \in inPool : nonce'[d] = nonce[d]
  BY <1>2 DEF IInv, Phases, Typed
<1>4. /\ NextIndex \in Nat
      /\ \A n \in 0 .. NextIndex - 1 : \E d \in Calls : Sent(d) /\ nonce[d] = n
  BY <1>3, NextIndexFollows
<1>5. NextIndex \in 0 .. Cardinality(Calls) - 1
  BY <1>2, <1>3, NextIndexInRange
<1>6. NonceTypes' /\ InRange'
  BY <1>1, <1>4, <1>5 DEF NonceInv, NonceTypes, InRange
<1>7. Chained'
  <2> SUFFICES ASSUME NEW k \in 1 .. Len(chain)
               PROVE  /\ Sent(chain[k])' /\ chain[k] \notin inPool
                      /\ nonce'[chain[k]] = k - 1 /\ blocks[chain[k]] # <<>>
    BY <1>1 DEF Chained, Sent
  <2>1. chain[k] \in Calls /\ Sent(chain[k])
    BY DEF NonceInv, NonceTypes, Chained
  <2> QED
    BY <1>1, <1>2, <2>1 DEF NonceInv, Chained, Sent
<1>8. Pooled'
  BY <1>1, <1>3 DEF NonceInv, Pooled, index
<1>9. Preceded'
  <2> SUFFICES ASSUME NEW e \in Calls, pc'[e] \notin {"idle", "nextIndex"},
                      NEW n \in 0 .. nonce'[e] - 1
               PROVE  \E d \in Calls : Sent(d)' /\ nonce'[d] = n
    BY DEF Preceded
  <2>1. \E d \in Calls : Sent(d) /\ nonce[d] = n
    BY <1>1, <1>2, <1>4 DEF NonceInv, Preceded
  <2> QED
    BY <1>2, <2>1
<1>10. Rivalled'
  BY <1>1, <1>2 DEF NonceInv, Rivalled
<1> QED
  BY <1>6, <1>7, <1>8, <1>9, <1>10 DEF NonceInv

LEMMA SendNonces ==
    ASSUME IInv, NonceInv, NEW c \in Calls, Send(c)
    PROVE  NonceInv'
<1>1. /\ pc[c] = "sending" /\ pc' = [pc EXCEPT ![c] = "subscribed"]
      /\ nonce[c] >= index /\ nonce[c] \notin Taken
      /\ inPool' = inPool \cup {c}
      /\ UNCHANGED <<nonce, chain, blocks, forks>> /\ pc \in [Calls -> PcStates]
  BY DEF Send, Goto, IInv, Typed
<1>2. /\ \A d \in Calls : Sent(d) => Sent(d)'
      /\ ~Sent(c)
  BY <1>1 DEF Sent
<1>3. NonceTypes' /\ InRange'
  BY <1>1 DEF NonceInv, NonceTypes, InRange
<1>4. Chained'
  <2> SUFFICES ASSUME NEW k \in 1 .. Len(chain)
               PROVE  /\ Sent(chain[k])' /\ chain[k] \notin inPool'
                      /\ nonce[chain[k]] = k - 1 /\ blocks[chain[k]] # <<>>
    BY <1>1 DEF Chained, Sent
  <2> QED
    BY <1>1, <1>2 DEF NonceInv, NonceTypes, Chained, Sent
<1>5. Pooled'
  BY <1>1 DEF NonceInv, Pooled, index, Taken
<1>6. Preceded' /\ Rivalled'
  BY <1>1, <1>2 DEF NonceInv, Preceded, Rivalled
<1> QED
  BY <1>3, <1>4, <1>5, <1>6 DEF NonceInv

LEMMA SendFailsNonces ==
    ASSUME IInv, NonceInv, NEW c \in Calls, SendFails(c)
    PROVE  NonceInv'
<1>1. /\ pc[c] = "sending" /\ pc' = [pc EXCEPT ![c] = "turnedDown"]
      /\ nonce[c] < index \/ nonce[c] \in Taken
      /\ UNCHANGED <<nonce, inPool, chain, blocks, forks>> /\ pc \in [Calls -> PcStates]
  BY DEF SendFails, Goto, IInv, Typed
<1>2. \A d \in Calls : Sent(d)' <=> Sent(d)
  BY <1>1 DEF Sent
<1>3. NonceTypes' /\ InRange'
  BY <1>1 DEF NonceInv, NonceTypes, InRange
<1>4. Chained'
  BY <1>1, <1>2 DEF NonceInv, NonceTypes, Chained
<1>5. Pooled'
  BY <1>1 DEF NonceInv, Pooled, index
<1>6. Preceded'
  BY <1>1, <1>2 DEF NonceInv, Preceded
<1>7. \E d \in Calls : Sent(d) /\ nonce[d] = nonce[c]
  <2>1. CASE nonce[c] < index
    <3>1. nonce[c] \in 0 .. index - 1
      BY <2>1 DEF NonceInv, NonceTypes, index
    <3> QED
      BY <3>1, OnTheChain
  <2>2. CASE nonce[c] \in Taken
    BY <2>2 DEF Taken, IInv, Typed, Phases
  <2> QED
    BY <1>1, <2>1, <2>2
<1>8. Rivalled'
  BY <1>1, <1>2, <1>7 DEF NonceInv, Rivalled
<1> QED
  BY <1>3, <1>4, <1>5, <1>6, <1>8 DEF NonceInv

LEMMA IncludeNonces ==
    ASSUME IInv, NonceInv, NEW c \in Calls, NEW outcome \in Outcomes, IncludeInBlock(c, outcome)
    PROVE  NonceInv'
<1>1. /\ c \in inPool /\ nonce[c] = index /\ inPool' = inPool \ {c}
      /\ chain' = Append(chain, c) /\ blocks' = [blocks EXCEPT ![c] = Append(@, outcome)]
      /\ UNCHANGED <<pc, nonce, forks>> /\ inPool \subseteq Calls
  BY DEF IncludeInBlock, IInv, Typed
<1>2. /\ chain \in Seq(Calls) /\ index = Len(chain) /\ index' = index + 1 /\ index \in Nat
      /\ Sent(c) /\ Len(chain') = Len(chain) + 1
  BY <1>1 DEF NonceInv, NonceTypes, index, IInv, Phases
<1>3. NonceTypes' /\ InRange'
  BY <1>1 DEF NonceInv, NonceTypes, InRange
<1>4. /\ blocks'[c] # <<>>
      /\ \A d \in Calls : blocks[d] # <<>> => blocks'[d] # <<>>
  <2>1. blocks \in [Calls -> Seq(Outcomes)]
    BY DEF IInv, Typed
  <2>2. Append(blocks[c], outcome) # <<>>
    BY <2>1
  <2> QED
    BY <1>1, <2>1, <2>2
<1>5. Chained'
  <2> SUFFICES ASSUME NEW k \in 1 .. Len(chain')
               PROVE  /\ Sent(chain'[k]) /\ chain'[k] \notin inPool'
                      /\ nonce[chain'[k]] = k - 1 /\ blocks'[chain'[k]] # <<>>
    BY <1>1 DEF Chained, Sent
  <2>1. CASE k = Len(chain) + 1
    BY <1>1, <1>2, <1>4, <2>1
  <2>2. CASE k \in 1 .. Len(chain)
    <3>1. chain'[k] = chain[k] /\ chain[k] \in Calls
      BY <1>1, <1>2, <2>2
    <3> QED
      BY <1>1, <1>4, <2>2, <3>1 DEF NonceInv, Chained
  <2> QED
    BY <1>2, <2>1, <2>2
<1>6. Pooled'
  <2>1. \A d \in inPool : nonce[d] \in Nat /\ nonce[d] >= index
    BY <1>1 DEF NonceInv, NonceTypes, Pooled
  <2>2. \A d \in inPool' : nonce[d] # index
    BY <1>1 DEF NonceInv, Pooled
  <2>3. \A d \in inPool' : nonce'[d] >= index'
    BY <1>1, <1>2, <2>1, <2>2
  <2> QED
    BY <1>1, <2>3 DEF NonceInv, Pooled
<1>7. Preceded' /\ Rivalled'
  BY <1>1 DEF NonceInv, Preceded, Rivalled, Sent
<1> QED
  BY <1>3, <1>5, <1>6, <1>7 DEF NonceInv

LEMMA RetractNonces ==
    ASSUME IInv, NonceInv, NEW c \in Calls, Retract(c)
    PROVE  NonceInv'
<1>1. /\ forks < MaxForks /\ forks' = forks + 1
      /\ chain # <<>> /\ c = chain[index] /\ inPool' = inPool \cup {c}
      /\ chain' = SubSeq(chain, 1, index - 1)
      /\ UNCHANGED <<pc, nonce, blocks>>
  BY DEF Retract
<1>2. /\ chain \in Seq(Calls) /\ index = Len(chain) /\ index \in Nat \ {0}
      /\ chain' \in Seq(Calls) /\ Len(chain') = index - 1
      /\ \A k \in 1 .. index - 1 : chain'[k] = chain[k] /\ k \in 1 .. Len(chain)
  <2>1. chain \in Seq(Calls) /\ index = Len(chain) /\ index \in Nat \ {0}
    BY <1>1 DEF NonceInv, NonceTypes, index
  <2>2. chain' = [k \in 1 .. index - 1 |-> chain[k]]
    BY <1>1, <2>1
  <2>3. \A k \in 1 .. index - 1 : chain[k] \in Calls /\ k \in 1 .. Len(chain)
    BY <2>1
  <2>4. chain' \in Seq(Calls) /\ Len(chain') = index - 1
    BY <2>1, <2>2, <2>3
  <2> QED
    BY <2>1, <2>2, <2>3, <2>4
<1>3. NonceTypes' /\ InRange'
  BY <1>1, <1>2, ExecAssumption DEF NonceInv, NonceTypes, InRange
<1>4. index' = index - 1 /\ nonce[c] = index - 1 /\ c \notin inPool
  BY <1>1, <1>2 DEF NonceInv, Chained, index
<1>5. Chained'
  <2> SUFFICES ASSUME NEW k \in 1 .. index - 1
               PROVE  /\ Sent(chain[k]) /\ chain[k] \notin inPool'
                      /\ nonce[chain[k]] = k - 1 /\ blocks[chain[k]] # <<>>
    BY <1>1, <1>2 DEF Chained, Sent
  <2>1. /\ Sent(chain[k]) /\ chain[k] \notin inPool
        /\ nonce[chain[k]] = k - 1 /\ blocks[chain[k]] # <<>>
    BY <1>2 DEF NonceInv, Chained
  <2>2. chain[k] # c
    BY <1>2, <1>4, <2>1
  <2> QED
    BY <1>1, <2>1, <2>2
<1>6. Pooled'
  <2>1. \A d \in inPool : nonce[d] \in Nat /\ nonce[d] >= index
    BY DEF NonceInv, NonceTypes, Pooled, IInv, Typed
  <2>2. \A d \in inPool : nonce[d] # nonce[c] /\ nonce[d] >= index - 1
    BY <1>2, <1>4, <2>1
  <2>3. \A d \in inPool' : nonce'[d] >= index'
    BY <1>1, <1>2, <1>4, <2>2
  <2> QED
    BY <1>1, <2>2, <2>3 DEF NonceInv, Pooled
<1>7. Preceded' /\ Rivalled'
  BY <1>1 DEF NonceInv, Preceded, Rivalled, Sent
<1> QED
  BY <1>3, <1>5, <1>6, <1>7 DEF NonceInv

\* A dropped extrinsic, a receipt and the end of a subscription.
LEMMA OtherNonces ==
    ASSUME IInv, NonceInv, NEW c \in Calls, Drop(c) \/ Receipt(c) \/ Unsubscribe(c)
    PROVE  NonceInv'
<1>1. /\ UNCHANGED <<nonce, chain, blocks, forks>> /\ inPool' \subseteq inPool
      /\ \/ pc' = pc
         \/ pc[c] = "subscribed" /\ pc' = [pc EXCEPT ![c] = "unsubscribed"]
      /\ pc \in [Calls -> PcStates]
  <2>1. CASE Drop(c)
    <3>1. inPool' \subseteq inPool /\ UNCHANGED <<pc, nonce, chain, blocks, forks>>
      BY <2>1 DEF Drop
    <3> QED
      BY <3>1 DEF IInv, Typed
  <2>2. CASE Receipt(c)
    <3>1. UNCHANGED <<pc, nonce, inPool, chain, blocks, forks>>
      BY <2>2 DEF Receipt
    <3> QED
      BY <3>1 DEF IInv, Typed
  <2>3. CASE Unsubscribe(c)
    BY <2>3 DEF Unsubscribe, Goto, IInv, Typed
  <2> QED
    BY <2>1, <2>2, <2>3
<1>2. /\ \A d \in Calls : Sent(d)' <=> Sent(d)
      /\ \A d \in Calls : pc'[d] = "turnedDown" => pc[d] = "turnedDown"
      /\ \A d \in Calls : pc'[d] \notin {"idle", "nextIndex"} => pc[d] \notin {"idle", "nextIndex"}
  BY <1>1 DEF Sent
<1>3. NonceTypes' /\ InRange'
  BY <1>1 DEF NonceInv, NonceTypes, InRange
<1>4. Chained'
  BY <1>1, <1>2 DEF NonceInv, NonceTypes, Chained
<1>5. Pooled'
  BY <1>1 DEF NonceInv, Pooled, index
<1>6. Preceded' /\ Rivalled'
  BY <1>1, <1>2 DEF NonceInv, Preceded, Rivalled
<1> QED
  BY <1>3, <1>4, <1>5, <1>6 DEF NonceInv

LEMMA StepKeepsNonceInv == IInv /\ NonceInv /\ [Next]_vars => NonceInv'
<1> SUFFICES ASSUME IInv, NonceInv, [Next]_vars PROVE NonceInv'
  OBVIOUS
<1>1. CASE UNCHANGED vars
  BY <1>1 DEF vars, NonceInv, NonceTypes, Chained, Pooled, Preceded, Rivalled, InRange, Sent, index
<1>2. CASE Next
  BY <1>2, ExecTransactionNonces, GetNextIndexNonces, SendNonces, SendFailsNonces,
     IncludeNonces, RetractNonces, OtherNonces
  DEF Next, NodeStep, Include
<1> QED
  BY <1>1, <1>2

-----------------------------------------------------------------------------
LEMMA Invariance == Spec => [](IInv /\ NonceInv)
<1>1. IInv /\ NonceInv /\ [Next]_vars => (IInv /\ NonceInv)'
  BY StepKeepsIInv, StepKeepsNonceInv
<1> QED
  BY <1>1, InitImpliesIInv, NonceInvInitially, PTL DEF Spec

\* The shapes of the state, for any number of calls, of forks and of dropped
\* extrinsics.  In particular a nonce is lower than the number of calls, so
\* the node never leaves one out, which no call could then use.
THEOREM TypeCorrectness == Spec => []TypeOK
<1>1. IInv /\ NonceInv => TypeOK
  BY DEF IInv, NonceInv, Typed, Phases, NonceTypes, InRange, Sent, TypeOK
<1> QED
  BY <1>1, Invariance, PTL

\* However many calls, forks and dropped extrinsics there are, a call that
\* settles says what the first block did that had its extrinsic.
THEOREM CallersLearnOfTheFirstBlock == Spec => []FirstBlockDecides
<1>1. IInv => FirstBlockDecides
  BY DEF IInv
<1> QED
  BY <1>1, Invariance, PTL

\* A call of execTransaction that waits, for no reason that MayHang gives, is
\* in the pool behind an extrinsic that the chain can include at once: it is
\* never left waiting with nothing under way.
THEOREM NoCallWaitsInVain == Spec => []WaitingIsMoving
<1>1. IInv /\ NonceInv => WaitingIsMoving
  <2> SUFFICES ASSUME IInv, NonceInv, NEW c \in Calls,
                      pc[c] \in {"subscribed", "turnedDown"}, promise[c] = "pending",
                      receipts[c] = <<>>, ~MayHang(c)
               PROVE  c \in inPool /\ \E d \in inPool : nonce[d] = index
    BY DEF WaitingIsMoving
  <2>1. \A d \in Calls : Sent(d) /\ nonce[d] = nonce[c] => d = c
    BY DEF MayHang, Sent
  <2>2. \A d \in Calls : Sent(d) /\ nonce[d] \in index .. nonce[c] => d \in inPool
    BY DEF MayHang, Sent
  <2>3. index \in Nat /\ nonce[c] \in Nat
    BY DEF NonceInv, NonceTypes, index
  <2>4. Sent(c)
    BY <2>1 DEF NonceInv, Rivalled, Sent
  <2>5. nonce[c] >= index
    <3> SUFFICES ASSUME nonce[c] < index PROVE FALSE
      BY <2>3
    <3>1. nonce[c] \in 0 .. index - 1
      BY <2>3
    <3>2. blocks[c] # <<>>
      BY <2>1, <3>1, OnTheChain
    <3> QED
      BY <3>2 DEF IInv, Queued
  <2>6. nonce[c] \in index .. nonce[c]
    BY <2>3, <2>5
  <2>7. c \in inPool
    BY <2>2, <2>4, <2>6
  <2>8. \E d \in inPool : nonce[d] = index
    <3>1. CASE nonce[c] = index
      BY <2>7, <3>1
    <3>2. CASE nonce[c] # index
      <4>1. index \in 0 .. nonce[c] - 1 /\ index \in index .. nonce[c]
        BY <2>3, <2>5, <3>2
      <4>2. PICK d \in Calls : Sent(d) /\ nonce[d] = index
        BY <2>4, <4>1 DEF NonceInv, Preceded, Sent
      <4> QED
        BY <2>2, <4>1, <4>2
    <3> QED
      BY <3>1, <3>2
  <2> QED
    BY <2>7, <2>8
<1> QED
  BY <1>1, Invariance, PTL
=============================================================================
