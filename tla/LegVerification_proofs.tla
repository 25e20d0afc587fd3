----------------------- MODULE LegVerification_proofs -----------------------
(***************************************************************************)
(* Theorems about LegVerification, for any number of legs, any finite set  *)
(* of assets, any amounts and any bound on the expected amounts.           *)
(***************************************************************************)
EXTENDS LegVerification, FiniteSetTheorems, WellFoundedInduction, TLAPS

\* Assets of leg l that a decrypt request in flight is about.
InFlight(l) == {a \in Assets : <<l, a>> \in requests}

\* What the variables are, the sequences' lengths and the input included.
Typed ==
    /\ TypeOK
    /\ endpoint \in {"verify", "affirm"}
    /\ expected \in [Legs -> Seq(Expected)]
    /\ amount \in [Legs -> [Assets -> Amounts]]
    /\ responses \in [Legs -> Seq(Responses)]
    /\ affirmed \subseteq {target}
    /\ pc = "fetching" => requests = {}
    /\ pc = "affirming" \/ (pc = "decrypting" /\ endpoint = "affirm") => target \in details

\* The legs whose responses are collected.
Asked(l) == endpoint = "verify" \/ l = target

\* Only what the key can decrypt, of a leg that is to be decrypted, is asked for.
Justified ==
    \A la \in requests : la[1] \in Decrypting(details) /\ Entitled(la[1], la[2])

\* A response about leg l says that nothing is proved or that the key cannot
\* decrypt the asset, or it holds the amount and the server's verdict on what was
\* sent along.
IsAnswer(l, x) ==
    /\ x.leg = l
    /\ x.isProved <=> l \in details
    /\ x.decrypted <=> x.isProved /\ Entitled(l, x.asset)
    /\ x.decrypted => /\ x.amount = <<Number(amount[l][x.asset])>>
                      /\ x.valid \in ServerVerdicts(amount[l][x.asset], SentAmount(l, x.asset))
    /\ ~x.decrypted => x.valid = "null"

Answers ==
    pc = "decrypting" =>
        \A l \in Legs : \A x \in ToSet(responses[l]) : IsAnswer(l, x)

\* While the legs are decrypted, every asset of each has its request in flight
\* or its response, and there are as many of both as there are assets.
Accounted ==
    pc = "decrypting" =>
        \A l \in Legs : Asked(l) =>
            /\ \A a \in Assets :
                  a \in InFlight(l) \/ \E i \in DOMAIN responses[l] : responses[l][i].asset = a
            /\ Len(responses[l]) + Cardinality(InFlight(l)) = Cardinality(Assets)

\* The leg moves what JSON makes of the expected amounts.
AsExpected ==
    \A a \in Assets : \E e \in ToSet(expected[target]) :
        e.asset = a /\ Number(e.amount) = amount[target][a]

\* The checks have been passed by a leg that moves what is expected.
Checked == pc = "affirming" \/ affirmed # {} => AsExpected

\* What a report says of each asset that it lists.
Reports ==
    reply.kind = "report" =>
        \A x \in ToSet(reply.responses) :
            /\ x.leg \in Legs /\ x.asset \in Assets
            /\ x.decrypted <=> x.isProved /\ Entitled(x.leg, x.asset)
            /\ x.isProved => x.leg \in proved
            /\ x.decrypted => x.amount = <<Number(amount[x.leg][x.asset])>>

\* A key to all the assets of the leg, and exactly its amounts expected.
Correct ==
    /\ \A a \in Assets : Entitled(target, a)
    /\ Len(expected[target]) = Cardinality(Assets)
    /\ ToSet(expected[target]) = {[asset |-> a, amount |-> amount[target][a]] : a \in Assets}

IInv ==
    /\ Typed /\ Justified /\ Answers /\ Accounted
    /\ Checked /\ Reports /\ ReportIsComplete

\* Amounts that a JSON number holds exactly, and those that it holds up to the
\* rounding described in JsonNumber.
AmountsAreSafe == \A n \in Amounts : n <= MaxSafe
AmountsAreHeld == \A n \in Amounts : n <= 2 * MaxSafe

-----------------------------------------------------------------------------
\* A nonempty set of naturals has a least element.
LEMMA LeastExists ==
    ASSUME NEW S \in SUBSET Nat, S # {}
    PROVE  \E i \in S : \A j \in S : i <= j
<1> DEFINE Less == {ss \in Nat \X Nat : ss[1] < ss[2]}
<1>1. IsWellFoundedOn(Less, Nat)
  BY NatLessThanWellFounded DEF OpToRel
<1>2. PICK i \in S : \A j \in S : <<j, i>> \notin Less
  BY <1>1, WFMin
<1>3. ASSUME NEW j \in S PROVE i <= j
  <2>1. i \in Nat /\ j \in Nat /\ <<j, i>> \in Nat \X Nat
    OBVIOUS
  <2>2. ~(j < i)
    BY <1>2, <2>1
  <2> QED
    BY <2>1, <2>2
<1> QED
  BY <1>3

\* What becomes of an amount in JSON is one unit away at most.
LEMMA NumberIsNear ==
    ASSUME NEW n \in Nat
    PROVE  Number(n) \in Int /\ Number(n) <= n + 1 /\ n <= Number(n) + 1
BY DEF Number

\* Induction, for a set of numbers.
LEMMA UpTo ==
    ASSUME NEW n \in Nat, NEW S, 1 \in S,
           \A k \in 2 .. n : k - 1 \in S => k \in S
    PROVE  1 .. n \subseteq S
<1> SUFFICES ASSUME NEW m \in 1 .. n, m \notin S PROVE FALSE
  OBVIOUS
<1> DEFINE Bad == (1 .. n) \ S
<1>0. Bad \in SUBSET Nat /\ Bad # {}
  OBVIOUS
<1> HIDE DEF Bad
<1>1. PICK i \in Bad : \A j \in Bad : i <= j
  BY <1>0, LeastExists
<1> USE DEF Bad
<1>2. i \in 2 .. n /\ i - 1 \notin Bad
  BY <1>1
<1>3. i - 1 \in S
  BY <1>2
<1> QED
  BY <1>1, <1>2, <1>3

\* What f is computed by, step by step.
Concatenates(f, seqs, n) ==
    f = [i \in 1 .. n |-> IF i = 1 THEN seqs[i] ELSE f[i - 1] \o seqs[i]]

LEMMA ConcatenationExists ==
    ASSUME NEW S, NEW seqs \in Seq(Seq(S)), NEW n \in 1 .. Len(seqs)
    PROVE  \E f : Concatenates(f, seqs, n)
<1> DEFINE Done == {k \in 1 .. Len(seqs) : \E f : Concatenates(f, seqs, k)}
<1>1. 1 \in Done
  <2> DEFINE f == [i \in 1 .. 1 |-> seqs[1]]
  <2>1. f = [i \in 1 .. 1 |-> IF i = 1 THEN seqs[i] ELSE f[i - 1] \o seqs[i]]
    OBVIOUS
  <2> HIDE DEF f
  <2>2. Concatenates(f, seqs, 1)
    BY <2>1, Zenon DEF Concatenates
  <2>3. 1 \in 1 .. Len(seqs)
    OBVIOUS
  <2> QED
    BY <2>2, <2>3, Zenon
<1>2. ASSUME NEW k \in 2 .. Len(seqs), k - 1 \in Done PROVE k \in Done
  <2>1. PICK f : Concatenates(f, seqs, k - 1)
    BY <1>2
  <2> DEFINE g == [i \in 1 .. k |-> IF i = k THEN f[k - 1] \o seqs[k] ELSE f[i]]
  <2>2. \A i \in 1 .. k - 1 : f[i] = IF i = 1 THEN seqs[i] ELSE f[i - 1] \o seqs[i]
    BY <2>1, Zenon DEF Concatenates
  <2>3. ASSUME NEW i \in 1 .. k
        PROVE  g[i] = IF i = 1 THEN seqs[i] ELSE g[i - 1] \o seqs[i]
    <3>1. CASE i = k
      <4>1. k # 1 /\ k - 1 \in 1 .. k /\ k - 1 # k
        OBVIOUS
      <4> QED
        BY <3>1, <4>1
    <3>2. CASE i # k /\ i # 1
      <4>1. i \in 1 .. k - 1 /\ i - 1 \in 1 .. k /\ i - 1 # k
        BY <3>2
      <4> QED
        BY <2>2, <3>2, <4>1
    <3>3. CASE i # k /\ i = 1
      <4>1. i \in 1 .. k - 1
        BY <3>3
      <4> QED
        BY <2>2, <3>3, <4>1
    <3> QED
      BY <3>1, <3>2, <3>3
  <2>4. g = [i \in 1 .. k |-> IF i = 1 THEN seqs[i] ELSE g[i - 1] \o seqs[i]]
    <3>1. g = [i \in 1 .. k |-> g[i]]
      OBVIOUS
    <3> HIDE DEF g
    <3> QED
      BY <2>3, <3>1, Zenon
  <2>5. k \in 1 .. Len(seqs)
    OBVIOUS
  <2> HIDE DEF g
  <2>6. Concatenates(g, seqs, k)
    BY <2>4, Zenon DEF Concatenates
  <2> QED
    BY <2>5, <2>6, Zenon
<1> HIDE DEF Done
<1>3. Len(seqs) \in Nat
  OBVIOUS
<1>4. 1 .. Len(seqs) \subseteq Done
  BY <1>1, <1>2, <1>3, UpTo
<1>5. n \in Done
  BY <1>4
<1> QED
  BY <1>5, Zenon DEF Done

\* FlattenSeq concatenates the sequences one after the other.
LEMMA FlattenSteps ==
    ASSUME NEW S, NEW seqs \in Seq(Seq(S)), Len(seqs) # 0
    PROVE  \E f : Concatenates(f, seqs, Len(seqs)) /\ FlattenSeq(seqs) = f[Len(seqs)]
<1>1. \E f : Concatenates(f, seqs, Len(seqs))
  BY ConcatenationExists
<1> DEFINE flatten == CHOOSE f : f = [i \in 1 .. Len(seqs) |->
                          IF i = 1 THEN seqs[i] ELSE f[i - 1] \o seqs[i]]
<1>2. Concatenates(flatten, seqs, Len(seqs))
  BY <1>1, Zenon DEF Concatenates
<1>3. FlattenSeq(seqs) = flatten[Len(seqs)]
  BY Zenon DEF FlattenSeq
<1> QED
  BY <1>2, <1>3, Zenon
\* What findExpectedAmount finds: an entry for the asset, if there is one.
LEMMA FindExpectedFinds ==
    ASSUME expected \in [Legs -> Seq(Expected)], NEW l \in Legs, NEW a,
           NEW k \in DOMAIN expected[l], expected[l][k].asset = a
    PROVE  \E i \in DOMAIN expected[l] :
              /\ expected[l][i].asset = a
              /\ expected[l][i] \in Expected
              /\ FindExpected(l, a) = <<expected[l][i].amount>>
<1> DEFINE matches == {i \in DOMAIN expected[l] : expected[l][i].asset = a}
           first   == CHOOSE i \in matches : \A j \in matches : i <= j
<1>1. matches # {} /\ matches \subseteq Nat
  BY DEF ToSet
<1>2. first \in matches
  BY <1>1, LeastExists
<1>3. FindExpected(l, a) = <<expected[l][first].amount>>
  BY <1>1 DEF FindExpected
<1>4. expected[l][first] \in Expected
  BY <1>2
<1> QED
  BY <1>2, <1>3, <1>4

\* The verdict on an expected amount: it is compared as a JSON number.
LEMMA ExpectedVerdict ==
    ASSUME NEW l, NEW a, NEW n, NEW m, FindExpected(l, a) = <<n>>
    PROVE  ServerVerdicts(m, SentAmount(l, a)) =
               IF Number(n) = m THEN {"valid"} ELSE {"invalid"}
<1>1. SentAmount(l, a) = [i \in {1} |-> Number(n)]
  BY DEF SentAmount
<1>2. SentAmount(l, a)[1] = Number(n) /\ SentAmount(l, a) # <<>>
  BY <1>1
<1> QED
  BY <1>2 DEF ServerVerdicts

\* An enumeration of a finite set lists each of its elements once.
LEMMA EnumerationIsOnto ==
    ASSUME NEW S, IsFiniteSet(S)
    PROVE  /\ SetToSeq(S) \in [1 .. Cardinality(S) -> S]
           /\ Cardinality(S) \in Nat
           /\ \A x \in S : \E i \in 1 .. Cardinality(S) : SetToSeq(S)[i] = x
<1> DEFINE n == Cardinality(S)
<1>1. n \in Nat /\ ExistsBijection(1 .. n, S)
  BY FS_CardinalityType
<1>2. \E f \in [1 .. n -> S] : IsInjective(f)
  BY <1>1 DEF ExistsBijection, Bijection, Injection
<1>3. SetToSeq(S) \in [1 .. n -> S] /\ IsInjective(SetToSeq(S))
  BY <1>2 DEF SetToSeq
<1>4. SetToSeq(S) \in Injection(1 .. n, S)
  BY <1>3 DEF Injection
<1>5. IsFiniteSet(1 .. n) /\ Cardinality(1 .. n) = n
  BY <1>1, FS_Interval
<1>6. SetToSeq(S) \in Surjection(1 .. n, S)
  BY <1>4, <1>5, FS_Injection
<1> QED
  BY <1>1, <1>3, <1>6 DEF Surjection

\* The assets of a leg that no request is made for.
NotRequested(l, legs) == IF l \in legs THEN {a \in Assets : ~Entitled(l, a)} ELSE Assets

\* What is known of a leg at once: one response for each asset of some set, of
\* all assets if the leg is not proved, of those the key cannot decrypt if it is.
LEMMA ImmediateFacts ==
    ASSUME NEW l \in Legs, NEW legs,
           NEW S, S = NotRequested(l, legs),
           NEW rs, rs = ImmediateResponses(l, legs)
    PROVE  /\ rs \in Seq(Responses)
           /\ Len(rs) = Cardinality(S) /\ Cardinality(S) \in Nat
           /\ \A i \in DOMAIN rs :
                 /\ rs[i].leg = l /\ rs[i].asset \in S /\ (rs[i].isProved <=> l \in legs)
                 /\ ~rs[i].decrypted /\ rs[i].valid = "null"
           /\ \A a \in S : \E i \in DOMAIN rs : rs[i].asset = a
<1> DEFINE n == Cardinality(S)
<1>1. IsFiniteSet(S)
  BY LegsAssumption, FS_Subset DEF NotRequested
<1>2. /\ n \in Nat /\ SetToSeq(S) \in [1 .. n -> S]
      /\ \A a \in S : \E i \in 1 .. n : SetToSeq(S)[i] = a
  BY <1>1, EnumerationIsOnto
<1>3. \E b \in BOOLEAN : /\ rs = [i \in 1 .. n |-> NotDecrypted(l, SetToSeq(S)[i], b)]
                         /\ b <=> l \in legs
  <2>1. CASE l \in legs
    BY <2>1 DEF ImmediateResponses, NotRequested
  <2>2. CASE l \notin legs
    BY <2>2 DEF ImmediateResponses, NotRequested
  <2> QED
    BY <2>1, <2>2
<1>4. PICK b \in BOOLEAN : /\ rs = [i \in 1 .. n |-> NotDecrypted(l, SetToSeq(S)[i], b)]
                           /\ b <=> l \in legs
  BY <1>3
<1>5. \A a \in S : NotDecrypted(l, a, b) \in Responses
  BY DEF NotDecrypted, Responses, NotRequested
<1>n. n = Cardinality(S)
  OBVIOUS
<1> HIDE DEF n
<1>6. \A i \in 1 .. n : SetToSeq(S)[i] \in S
  BY <1>2
<1>7. \A i \in 1 .. n : rs[i] \in Responses /\ rs[i] = NotDecrypted(l, SetToSeq(S)[i], b)
  BY <1>4, <1>5, <1>6
<1>8. rs \in Seq(Responses) /\ Len(rs) = n /\ DOMAIN rs = 1 .. n
  <2>1. DOMAIN rs = 1 .. n /\ rs = [i \in 1 .. n |-> rs[i]]
    BY <1>4
  <2>2. rs \in [1 .. n -> Responses]
    BY <1>7, <2>1
  <2> QED
    BY <1>2, <2>1, <2>2
<1>9. ASSUME NEW i \in DOMAIN rs
      PROVE  /\ rs[i].leg = l /\ rs[i].asset \in S /\ rs[i].isProved = b
             /\ ~rs[i].decrypted /\ rs[i].valid = "null"
  <2>1. rs[i] = NotDecrypted(l, SetToSeq(S)[i], b) /\ SetToSeq(S)[i] \in S
    BY <1>6, <1>7, <1>8
  <2> QED
    BY <2>1 DEF NotDecrypted
<1>10. ASSUME NEW a \in S PROVE \E i \in DOMAIN rs : rs[i].asset = a
  <2>1. PICK i \in 1 .. n : SetToSeq(S)[i] = a
    BY <1>2
  <2>2. rs[i] = NotDecrypted(l, a, b)
    BY <1>7, <2>1
  <2> QED
    BY <1>8, <2>2 DEF NotDecrypted
<1>11. \A i \in DOMAIN rs : rs[i].isProved <=> l \in legs
  BY <1>4, <1>9
<1> QED
  BY <1>2, <1>8, <1>9, <1>10, <1>11, <1>n

\* The initial states satisfy the invariant.
LEMMA InvariantHoldsInitially == Init => IInv
<1> SUFFICES ASSUME Init PROVE IInv
  OBVIOUS
<1>1. expected \in [Legs -> Seq(Expected)]
  <2>1. ExpectedLists(endpoint) \subseteq Seq(Expected)
    <3> SUFFICES ASSUME NEW n \in Nat, NEW f \in [1 .. n -> Expected]
                 PROVE  f \in Seq(Expected)
      BY LegsAssumption DEF ExpectedLists, Init
    <3> QED
      OBVIOUS
  <2>2. expected \in [Legs -> ExpectedLists(endpoint)]
    BY DEF Init, AffirmInput, VerifyInput, Expectations
  <2> QED
    BY <2>1, <2>2
<1>2. responses \in [Legs -> Seq(Responses)] /\ \A l \in Legs : ToSet(responses[l]) = {}
  BY DEF Init, ToSet
<1>3. endpoint \in {"verify", "affirm"}
  BY LegsAssumption DEF Init
<1> QED
  BY <1>1, <1>2, <1>3 DEF Init, IInv, Typed, TypeOK, Justified, Answers, Accounted, Checked,
     Reports, ReportIsComplete

\* The input stays as it is, and so does what is defined from it alone.
LEMMA InputIsKept ==
    ASSUME UNCHANGED inputVars
    PROVE  /\ AsExpected' = AsExpected
           /\ Correct' = Correct
           /\ \A l : Asked(l)' = Asked(l)
           /\ \A l, a : Entitled(l, a)' = Entitled(l, a)
           /\ details' = details =>
                 /\ \A l, x : IsAnswer(l, x)' = IsAnswer(l, x)
                 /\ Decrypting(details)' = Decrypting(details)
<1>1. AsExpected' = AsExpected
  BY DEF inputVars, AsExpected
<1>2. Correct' = Correct /\ \A l : Asked(l)' = Asked(l)
  BY DEF inputVars, Correct, Entitled, Asked
<1>3. \A l, a : Entitled(l, a)' = Entitled(l, a) /\ SentAmount(l, a)' = SentAmount(l, a)
  BY DEF inputVars, Entitled, SentAmount, FindExpected
<1>4. ASSUME details' = details
      PROVE  /\ \A l, x : IsAnswer(l, x)' = IsAnswer(l, x)
             /\ Decrypting(details)' = Decrypting(details)
  BY <1>3, <1>4 DEF inputVars, IsAnswer, Decrypting
<1> QED
  BY <1>1, <1>2, <1>3, <1>4

LEMMA StepsKeepInput == ASSUME Next PROVE UNCHANGED inputVars
BY DEF Next, SenderAffirms, PartyRejects, ProofServerStep, ProofServerDecrypts,
   ProofServerFails, RequestStep, GetProofDetails, ReportAmounts, CheckAmounts,
   ObserverAffirmLeg, ObserverAffirmFails, inputVars, chainVars

\* A response to a decrypt request, and the list it is appended to.
LEMMA DecryptedFacts ==
    ASSUME Typed, NEW l \in Legs, NEW a \in Assets, NEW m \in Amounts,
           NEW verdict \in ServerVerdicts(m, SentAmount(l, a))
    PROVE  /\ Decrypted(l, a, verdict) \in Responses
           /\ Append(responses[l], Decrypted(l, a, verdict)) \in Seq(Responses)
<1>1. verdict \in {"valid", "invalid"}
  BY DEF ServerVerdicts
<1>2. Decrypted(l, a, verdict) \in Responses
  BY <1>1 DEF Decrypted, Responses, Typed
<1> QED
  BY <1>2 DEF Typed

\* Every step keeps the variables' shapes.
LEMMA TypedIsKept == ASSUME Typed, [Next]_vars PROVE Typed'
<1> DEFINE Shapes ==
        /\ proved \subseteq Legs
        /\ details \subseteq proved
        /\ affirmed \subseteq Legs
        /\ affirmed \subseteq {target}
        /\ pc = "fetching" => requests = {}
        /\ txState \in {"pending", "rejected"}
        /\ pc \in {"fetching", "decrypting", "affirming", "responded"}
        /\ requests \subseteq Legs \X Assets
        /\ responses \in [Legs -> Seq(Responses)]
        /\ reply.kind \in {"none", "error", "report", "affirmed"}
        /\ pc = "affirming" \/ (pc = "decrypting" /\ endpoint = "affirm") => target \in details
<1>1. Shapes
  BY DEF Typed, TypeOK
<1>2. Shapes' => Typed'
  <2> SUFFICES ASSUME Shapes' PROVE Typed'
    OBVIOUS
  <2>1. UNCHANGED <<endpoint, target, expected, amount>>
    BY StepsKeepInput DEF vars, chainVars, inputVars
  <2>2. \A l \in Legs : ToSet(responses'[l]) \subseteq Responses
    BY DEF ToSet
  <2> QED
    BY <2>1, <2>2 DEF Typed, TypeOK, Responses
<1>3. ASSUME NEW l \in Legs, SenderAffirms(l) PROVE Shapes'
  BY <1>1, <1>3 DEF SenderAffirms, inputVars
<1>4. ASSUME PartyRejects PROVE Shapes'
  BY <1>1, <1>4 DEF PartyRejects, inputVars
<1>5. ASSUME GetProofDetails PROVE Shapes'
  <2>1. responses' \in [Legs -> Seq(Responses)]
    <3>1. ASSUME NEW l \in Legs PROVE ImmediateResponses(l, proved) \in Seq(Responses)
      BY ImmediateFacts
    <3>2. <<>> \in Seq(Responses)
      OBVIOUS
    <3> QED
      BY <1>1, <1>5, <3>1, <3>2 DEF GetProofDetails
  <2>2. requests' \subseteq Legs \X Assets
    BY <1>1, <1>5 DEF GetProofDetails, DecryptRequests, Decrypting
  <2> QED
    BY <1>1, <1>5, <2>1, <2>2 DEF GetProofDetails, Respond, Error, chainVars
<1>6. ASSUME NEW l \in Legs, NEW a \in Assets, ProofServerDecrypts(l, a) PROVE Shapes'
  <2>1. amount[l][a] \in Amounts
    BY DEF Typed
  <2>2. responses' \in [Legs -> Seq(Responses)]
    BY <1>1, <1>6, <2>1, DecryptedFacts DEF ProofServerDecrypts
  <2> QED
    BY <1>1, <1>6, <2>2 DEF ProofServerDecrypts, chainVars
<1>7. ASSUME NEW l \in Legs, NEW a \in Assets, ProofServerFails(l, a) PROVE Shapes'
  BY <1>1, <1>7 DEF ProofServerFails, RejectRequest, Respond, Error, chainVars
<1>8. ASSUME ReportAmounts PROVE Shapes'
  BY <1>1, <1>8 DEF ReportAmounts, Respond, Report, chainVars
<1>9. ASSUME CheckAmounts PROVE Shapes'
  BY <1>1, <1>9 DEF CheckAmounts, Respond, Error, chainVars
<1>10. ASSUME ObserverAffirmLeg PROVE Shapes'
  BY <1>1, <1>10 DEF ObserverAffirmLeg, Respond, Error, inputVars
<1>11. ASSUME ObserverAffirmFails PROVE Shapes'
  BY <1>1, <1>11 DEF ObserverAffirmFails, Respond, Error, chainVars
<1>12. ASSUME UNCHANGED vars PROVE Shapes'
  BY <1>1, <1>12 DEF vars, chainVars
<1> HIDE DEF Shapes
<1> QED
  BY <1>2, <1>3, <1>4, <1>5, <1>6, <1>7, <1>8, <1>9, <1>10, <1>11, <1>12
     DEF Next, ProofServerStep, RequestStep

-----------------------------------------------------------------------------
\* The requests have just been sent.
LEMMA RequestsAreSent ==
    ASSUME Typed, GetProofDetails, pc' = "decrypting"
    PROVE  Justified' /\ Answers' /\ Accounted'
<1>1. /\ endpoint = "affirm" => target \in proved /\ target \in Legs
      /\ UNCHANGED inputVars /\ UNCHANGED <<endpoint, target>>
      /\ details' = proved /\ proved \subseteq Legs
      /\ requests' = DecryptRequests(proved)
      /\ responses' = [l \in Legs |-> IF endpoint = "verify" \/ l = target
                                      THEN ImmediateResponses(l, proved) ELSE <<>>]
  BY DEF GetProofDetails, Respond, Typed, TypeOK, chainVars, inputVars
<1>2. Justified'
  BY <1>1, InputIsKept DEF Justified, DecryptRequests, Decrypting
<1>3. ASSUME NEW l \in Legs, Asked(l)
      PROVE  /\ \A x \in ToSet(responses'[l]) : IsAnswer(l, x)'
             /\ \A a \in Assets :
                   a \in InFlight(l)' \/ \E i \in DOMAIN responses'[l] : responses'[l][i].asset = a
             /\ Len(responses'[l]) + Cardinality(InFlight(l)') = Cardinality(Assets)
  <2>1. PICK rs : rs = ImmediateResponses(l, proved)
    OBVIOUS
  <2>2. PICK S : S = NotRequested(l, proved)
    OBVIOUS
  <2>3. responses'[l] = rs
    BY <1>1, <1>3, <2>1 DEF Asked
  <2>4. /\ Len(rs) = Cardinality(S) /\ Cardinality(S) \in Nat
        /\ \A i \in DOMAIN rs :
              /\ rs[i].leg = l /\ rs[i].asset \in S /\ (rs[i].isProved <=> l \in proved)
              /\ ~rs[i].decrypted /\ rs[i].valid = "null"
        /\ \A a \in S : \E i \in DOMAIN rs : rs[i].asset = a
    BY <2>1, <2>2, ImmediateFacts
  <2>5. InFlight(l)' = Assets \ S
    BY <1>1, <1>3, <2>2, InputIsKept
       DEF InFlight, DecryptRequests, Decrypting, Asked, NotRequested
  <2>6. Cardinality(S) + Cardinality(Assets \ S) = Cardinality(Assets)
    <3>1. S \subseteq Assets /\ IsFiniteSet(S) /\ Assets \cap S = S
      BY <2>2, LegsAssumption, FS_Subset DEF NotRequested
    <3>2. Cardinality(Assets \ S) = Cardinality(Assets) - Cardinality(S)
      BY <3>1, LegsAssumption, FS_Difference
    <3> QED
      BY <3>2, <2>4, LegsAssumption, FS_CardinalityType
  <2>7. ASSUME NEW x \in ToSet(rs) PROVE IsAnswer(l, x)'
    <3>1. PICK i \in DOMAIN rs : x = rs[i]
      BY DEF ToSet
    <3>2. x.leg = l /\ (x.isProved <=> l \in details') /\ ~x.decrypted /\ x.valid = "null"
      BY <1>1, <2>4, <3>1
    <3>3. ~(x.isProved /\ Entitled(l, x.asset))
      BY <2>2, <2>4, <3>1 DEF NotRequested
    <3> QED
      BY <1>1, <3>2, <3>3, InputIsKept DEF IsAnswer
  <2> QED
    BY <2>3, <2>4, <2>5, <2>6, <2>7
<1>4. ASSUME NEW l \in Legs, ~Asked(l)
      PROVE  ToSet(responses'[l]) = {}
  BY <1>1, <1>4 DEF Asked, ToSet
<1>5. \A l \in Legs : \A x \in ToSet(responses'[l]) : IsAnswer(l, x)'
  BY <1>3, <1>4
<1>6. Accounted'
  BY <1>1, <1>3, InputIsKept DEF Accounted
<1>7. Answers'
  BY <1>5 DEF Answers
<1> QED
  BY <1>2, <1>6, <1>7

\* A decrypt request has just been answered.
LEMMA RequestIsAccounted ==
    ASSUME Typed, Justified, Answers, Accounted, pc = "decrypting",
           NEW l \in Legs, NEW a \in Assets, ProofServerDecrypts(l, a)
    PROVE  Answers' /\ Accounted'
<1>0. PICK rs : rs = responses[l]
  OBVIOUS
<1>1. /\ UNCHANGED inputVars /\ details' = details /\ UNCHANGED <<endpoint, target>>
      /\ requests' = requests \ {<<l, a>>} /\ <<l, a>> \in requests
      /\ l \in details /\ Entitled(l, a) /\ Asked(l)
  BY DEF ProofServerDecrypts, chainVars, inputVars, Justified, Decrypting, Asked, Typed
<1>2. PICK verdict \in ServerVerdicts(amount[l][a], SentAmount(l, a)) :
          responses' = [responses EXCEPT ![l] = Append(rs, Decrypted(l, a, verdict))]
  BY <1>0 DEF ProofServerDecrypts
<1>x. PICK x : x = Decrypted(l, a, verdict)
  OBVIOUS
<1>3. amount[l][a] \in Amounts /\ rs \in Seq(Responses)
  BY <1>0 DEF Typed
<1>4. x \in Responses /\ x.asset = a /\ IsAnswer(l, x)
  BY <1>1, <1>3, <1>x, DecryptedFacts DEF Decrypted, IsAnswer
<1>5. responses'[l] = Append(rs, x) /\ \A k \in Legs \ {l} : responses'[k] = responses[k]
  BY <1>2, <1>x DEF Typed
<1>6. /\ Len(Append(rs, x)) = Len(rs) + 1 /\ Len(rs) \in Nat
      /\ DOMAIN Append(rs, x) = 1 .. Len(rs) + 1 /\ DOMAIN rs = 1 .. Len(rs)
      /\ \A i \in DOMAIN rs : Append(rs, x)[i] = rs[i]
      /\ Append(rs, x)[Len(rs) + 1] = x
  BY <1>3, <1>4
<1>7. /\ IsFiniteSet(InFlight(l)) /\ a \in InFlight(l)
      /\ InFlight(l)' = InFlight(l) \ {a}
      /\ \A k \in Legs \ {l} : InFlight(k)' = InFlight(k)
  BY <1>1, LegsAssumption, FS_Subset DEF InFlight
<1>8. Cardinality(InFlight(l)') = Cardinality(InFlight(l)) - 1
      /\ Cardinality(InFlight(l)) \in Nat /\ Cardinality(Assets) \in Nat
  BY <1>7, LegsAssumption, FS_RemoveElement, FS_CardinalityType
<1>9. Answers'
  <2>1. ToSet(Append(rs, x)) \subseteq ToSet(rs) \cup {x}
    BY <1>6 DEF ToSet
  <2>2. \A k \in Legs : \A y \in ToSet(responses'[k]) : IsAnswer(k, y)
    BY <1>0, <1>4, <1>5, <2>1 DEF Answers
  <2> QED
    BY <1>1, <2>2, InputIsKept DEF Answers
<1>10. Accounted'
  <2>1. Len(rs) + Cardinality(InFlight(l)) = Cardinality(Assets)
    BY <1>0, <1>1 DEF Accounted
  <2>2. Len(Append(rs, x)) + Cardinality(InFlight(l)') = Cardinality(Assets)
    BY <1>6, <1>8, <2>1
  <2>3. ASSUME NEW b \in Assets
        PROVE  b \in InFlight(l)' \/ \E i \in DOMAIN Append(rs, x) : Append(rs, x)[i].asset = b
    <3>1. CASE b = a
      <4>1. Len(rs) + 1 \in DOMAIN Append(rs, x)
        BY <1>6
      <4> QED
        BY <1>4, <1>6, <3>1, <4>1
    <3>2. CASE b # a /\ b \in InFlight(l)
      BY <1>7, <3>2
    <3>3. CASE \E i \in DOMAIN rs : rs[i].asset = b
      BY <1>6, <3>3
    <3> QED
      BY <1>0, <1>1, <3>1, <3>2, <3>3 DEF Accounted
  <2>4. ASSUME NEW k \in Legs, Asked(k)
        PROVE  /\ \A b \in Assets :
                     b \in InFlight(k)' \/ \E i \in DOMAIN responses'[k] : responses'[k][i].asset = b
               /\ Len(responses'[k]) + Cardinality(InFlight(k)') = Cardinality(Assets)
    <3>1. CASE k = l
      BY <1>5, <2>2, <2>3, <3>1
    <3>2. CASE k # l
      BY <1>5, <1>7, <2>4, <3>2 DEF Accounted
    <3> QED
      BY <3>1, <3>2
  <2> QED
    BY <1>1, <2>4, InputIsKept DEF Accounted
<1> QED
  BY <1>9, <1>10

\* Requests, answers and accounts are kept by every step.
LEMMA AccountsAreKept ==
    ASSUME Typed, Justified, Answers, Accounted, [Next]_vars
    PROVE  Justified' /\ Answers' /\ Accounted'
<1>1. UNCHANGED inputVars
  BY StepsKeepInput DEF vars, chainVars, inputVars
<1>2. CASE UNCHANGED <<pc, details, requests, responses>>
  <2>1. \A l : InFlight(l)' = InFlight(l)
    BY <1>2 DEF InFlight
  <2> QED
    BY <1>1, <1>2, <2>1, InputIsKept DEF Justified, Answers, Accounted
<1>3. CASE pc' # "decrypting" /\ details' = details /\ requests' \subseteq requests
  BY <1>1, <1>3, InputIsKept DEF Justified, Answers, Accounted
<1>4. CASE GetProofDetails
  <2>1. CASE pc' = "decrypting"
    BY <1>4, <2>1, RequestsAreSent
  <2>2. CASE pc' # "decrypting"
    <3>1. pc = "fetching" /\ requests' = requests
      BY <1>4, <2>2 DEF GetProofDetails
    <3>2. requests = {}
      BY <3>1 DEF Typed
    <3> QED
      BY <2>2, <3>1, <3>2 DEF Justified, Answers, Accounted
  <2> QED
    BY <2>1, <2>2
<1>5. ASSUME NEW l \in Legs, NEW a \in Assets, ProofServerDecrypts(l, a)
      PROVE  Justified' /\ Answers' /\ Accounted'
  <2>1. pc' = pc /\ details' = details /\ requests' \subseteq requests
    BY <1>5 DEF ProofServerDecrypts
  <2>2. Justified'
    BY <1>1, <2>1, InputIsKept DEF Justified
  <2>3. CASE pc = "decrypting"
    BY <1>5, <2>2, <2>3, RequestIsAccounted
  <2> QED
    BY <1>3, <2>1, <2>3
<1>6. ASSUME NEW l \in Legs, NEW a \in Assets, ProofServerFails(l, a)
      PROVE  pc' = "responded" /\ details' = details /\ requests' \subseteq requests
  BY <1>6 DEF ProofServerFails, RejectRequest, Respond
<1>7. ASSUME ReportAmounts \/ CheckAmounts \/ ObserverAffirmLeg \/ ObserverAffirmFails
      PROVE  pc' # "decrypting" /\ details' = details /\ requests' \subseteq requests
  BY <1>7 DEF ReportAmounts, CheckAmounts, ObserverAffirmLeg, ObserverAffirmFails, Respond
<1>8. ASSUME UNCHANGED vars \/ PartyRejects \/ \E l \in Legs : SenderAffirms(l)
      PROVE  UNCHANGED <<pc, details, requests, responses>>
  BY <1>8 DEF vars, PartyRejects, SenderAffirms
<1> QED
  BY <1>2, <1>3, <1>4, <1>5, <1>6, <1>7, <1>8 DEF Next, ProofServerStep, RequestStep

-----------------------------------------------------------------------------
\* Once the responses are complete, nothing is in flight.
LEMMA NothingInFlight ==
    ASSUME Typed, Justified, Accounted, pc = "decrypting", AllDecrypted,
           NEW l \in Legs, Asked(l)
    PROVE  /\ responses[l] \in Seq(Responses)
           /\ Len(responses[l]) = Cardinality(Assets) /\ Cardinality(Assets) \in Nat
           /\ InFlight(l) = {}
           /\ \A a \in Assets : \E i \in DOMAIN responses[l] : responses[l][i].asset = a
<1>1. IsFiniteSet(InFlight(l))
  BY LegsAssumption, FS_Subset DEF InFlight
<1>2. Cardinality(InFlight(l)) \in Nat /\ Cardinality(Assets) \in Nat
  BY <1>1, LegsAssumption, FS_CardinalityType
<1>3. responses[l] \in Seq(Responses) /\ Len(responses[l]) \in Nat
  BY DEF Typed
<1>4. Len(responses[l]) + Cardinality(InFlight(l)) = Cardinality(Assets)
  BY DEF Accounted
<1>5. InFlight(l) = {}
  <2>1. CASE l \in Decrypting(details)
    <3>1. Cardinality(InFlight(l)) = 0
      BY <1>2, <1>3, <1>4, <2>1 DEF AllDecrypted
    <3> QED
      BY <1>1, <3>1, FS_EmptySet
  <2>2. CASE l \notin Decrypting(details)
    BY <2>2 DEF Justified, InFlight
  <2> QED
    BY <2>1, <2>2
<1>6. Cardinality(InFlight(l)) = 0
  BY <1>5, FS_EmptySet
<1> QED
  BY <1>2, <1>3, <1>4, <1>5, <1>6 DEF Accounted

\* What findExpectedAmount finds for the leg that is checked.
LEMMA TargetFinds ==
    ASSUME Typed, target \in Legs, NEW a, a \in {e.asset : e \in ToSet(expected[target])}
    PROVE  \E k \in DOMAIN expected[target] :
              /\ expected[target][k].asset = a
              /\ expected[target][k] \in Expected
              /\ FindExpected(target, a) = <<expected[target][k].amount>>
<1>1. expected \in [Legs -> Seq(Expected)]
  BY DEF Typed
<1>2. PICK j \in DOMAIN expected[target] : expected[target][j].asset = a
  BY DEF ToSet
<1> QED
  BY <1>1, <1>2, FindExpectedFinds

\* What an affirmation collects of its leg.
LEMMA TargetIsAnswered ==
    ASSUME Typed, Justified, Answers, Accounted,
           pc = "decrypting", endpoint = "affirm", AllDecrypted,
           NEW rs, rs = responses[target]
    PROVE  /\ target \in Legs /\ rs \in Seq(Responses) /\ Len(rs) = Cardinality(Assets)
           /\ \A a \in Assets : \E i \in DOMAIN rs : rs[i].asset = a
           /\ \A i \in DOMAIN rs :
                 /\ IsAnswer(target, rs[i])
                 /\ rs[i].asset \in Assets
                 /\ rs[i].decrypted <=> Entitled(target, rs[i].asset)
<1>1. target \in details /\ target \in Legs /\ Asked(target)
  BY DEF Typed, TypeOK, Asked
<1>2. /\ rs \in Seq(Responses) /\ Len(rs) = Cardinality(Assets)
      /\ \A a \in Assets : \E i \in DOMAIN rs : rs[i].asset = a
  BY <1>1, NothingInFlight
<1>3. ASSUME NEW i \in DOMAIN rs
      PROVE  /\ IsAnswer(target, rs[i])
             /\ rs[i].asset \in Assets
             /\ rs[i].decrypted <=> Entitled(target, rs[i].asset)
  <2>1. IsAnswer(target, rs[i])
    BY <1>1 DEF Answers, ToSet
  <2>2. rs[i] \in Responses
    BY <1>2
  <2>3. rs[i].asset \in Assets
    BY <2>2 DEF Responses
  <2> QED
    BY <1>1, <2>1, <2>3 DEF IsAnswer
<1> QED
  BY <1>1, <1>2, <1>3

\* The checks let a leg through only if it moves what is expected.
LEMMA CheckedIsExpected ==
    ASSUME Typed, Justified, Answers, Accounted,
           pc = "decrypting", endpoint = "affirm", AllDecrypted,
           Verdict(responses[target], expected[target]) = "ok"
    PROVE  AsExpected
<1> DEFINE list == expected[target]
<1>0. PICK rs : rs = responses[target]
  OBVIOUS
<1>1. /\ target \in Legs
      /\ \A a \in Assets : \E i \in DOMAIN rs : rs[i].asset = a
      /\ \A i \in DOMAIN rs : IsAnswer(target, rs[i])
  BY <1>0, TargetIsAnswered
<1>2. FailedLegs(rs) = {} /\ DecryptedNotExpected(rs, list) = {}
  BY <1>0 DEF Verdict
<1>3. \A i \in DOMAIN rs : rs[i].valid = "valid" /\ rs[i].decrypted
  BY <1>1, <1>2 DEF FailedLegs, IsAnswer
<1> SUFFICES ASSUME NEW a \in Assets
             PROVE  \E e \in ToSet(list) : e.asset = a /\ Number(e.amount) = amount[target][a]
  BY DEF AsExpected
<1>4. PICK i \in DOMAIN rs : rs[i].asset = a
  BY <1>1
<1>5. a \in {e.asset : e \in ToSet(list)}
  BY <1>2, <1>3, <1>4 DEF DecryptedNotExpected, DecryptedResults
<1>6. PICK k \in DOMAIN list : /\ list[k].asset = a /\ list[k] \in Expected
                              /\ FindExpected(target, a) = <<list[k].amount>>
  BY <1>1, <1>5, TargetFinds
<1>7. "valid" \in ServerVerdicts(amount[target][a], SentAmount(target, a))
  BY <1>1, <1>3, <1>4 DEF IsAnswer
<1>8. Number(list[k].amount) = amount[target][a]
  BY <1>6, <1>7, ExpectedVerdict
<1> QED
  BY <1>6, <1>8 DEF ToSet

\* The checks let through a leg that the key can decrypt completely and that
\* moves exactly what is expected.
LEMMA CorrectIsChecked ==
    ASSUME AmountsAreSafe, Typed, Justified, Answers, Accounted,
           pc = "decrypting", endpoint = "affirm", AllDecrypted, Correct
    PROVE  Verdict(responses[target], expected[target]) = "ok"
<1> DEFINE list == expected[target]
<1>0. PICK rs : rs = responses[target]
  OBVIOUS
<1>1. target \in Legs /\ rs \in Seq(Responses) /\ Len(rs) = Cardinality(Assets)
  BY <1>0, TargetIsAnswered
<1>2. \A i \in DOMAIN rs : IsAnswer(target, rs[i])
  BY <1>0, TargetIsAnswered
<1>3. \A i \in DOMAIN rs : rs[i].decrypted /\ rs[i].asset \in Assets
  BY <1>0, TargetIsAnswered DEF Correct
<1>4. ASSUME NEW i \in DOMAIN rs
      PROVE  /\ rs[i].asset \in {e.asset : e \in ToSet(list)}
             /\ rs[i].valid = "valid"
  <2>a. PICK a \in Assets : a = rs[i].asset
    BY <1>3
  <2>1. [asset |-> a, amount |-> amount[target][a]] \in ToSet(list)
    BY DEF Correct
  <2>2. a \in {e.asset : e \in ToSet(list)}
    BY <2>1
  <2>3. PICK k \in DOMAIN list : /\ list[k].asset = a /\ list[k] \in Expected
                                /\ FindExpected(target, a) = <<list[k].amount>>
    BY <1>1, <2>2, TargetFinds
  <2>4. list[k] \in {[asset |-> b, amount |-> amount[target][b]] : b \in Assets}
    BY DEF Correct, ToSet
  <2>5. list[k].amount = amount[target][a]
    BY <2>3, <2>4
  <2>6. amount[target][a] \in Amounts
    BY <1>1, <2>1 DEF Typed
  <2>7. Number(amount[target][a]) = amount[target][a]
    BY <2>6 DEF AmountsAreSafe, Number
  <2>8. ServerVerdicts(amount[target][a], SentAmount(target, a)) = {"valid"}
    BY <2>3, <2>5, <2>7, ExpectedVerdict
  <2> QED
    BY <1>2, <1>3, <2>a, <2>2, <2>8 DEF IsAnswer
<1>5. FailedLegs(rs) = {} /\ DecryptedNotExpected(rs, list) = {}
  BY <1>4 DEF FailedLegs, DecryptedNotExpected, DecryptedResults
<1>6. DecryptedResults(rs) = 1 .. Len(rs)
  BY <1>1, <1>3 DEF DecryptedResults
<1>7. Cardinality(1 .. Len(rs)) = Len(rs)
  BY <1>1, FS_Interval
<1>8. Cardinality(DecryptedResults(rs)) = Len(list)
  BY <1>1, <1>6, <1>7 DEF Correct
<1> QED
  BY <1>0, <1>5, <1>8 DEF Verdict

\* A leg is let through only as it should be.
LEMMA ChecksAreKept ==
    ASSUME Typed, Justified, Answers, Accounted, Checked, [Next]_vars
    PROVE  Checked'
<1>1. AsExpected' = AsExpected
  BY StepsKeepInput, InputIsKept DEF vars, chainVars, inputVars
<1>2. CASE CheckAmounts
  <2>1. pc' = "affirming" => AsExpected
    BY <1>2, CheckedIsExpected DEF CheckAmounts, Respond
  <2> QED
    BY <1>1, <1>2, <2>1 DEF CheckAmounts, Checked, chainVars
<1>3. CASE ObserverAffirmLeg
  BY <1>1, <1>3 DEF ObserverAffirmLeg, Checked
<1>4. ASSUME pc' # "affirming" \/ pc' = pc, affirmed' = affirmed
      PROVE  Checked'
  BY <1>1, <1>4 DEF Checked
<1>5. ASSUME \/ UNCHANGED vars \/ PartyRejects \/ \E l \in Legs : SenderAffirms(l)
             \/ GetProofDetails \/ ReportAmounts \/ ObserverAffirmFails
             \/ ProofServerStep
      PROVE  /\ pc' # "affirming" \/ pc' = pc
             /\ affirmed' = affirmed
  BY <1>5 DEF vars, chainVars, PartyRejects, SenderAffirms, GetProofDetails, ReportAmounts,
     ObserverAffirmFails, ProofServerStep, ProofServerDecrypts, ProofServerFails,
     RejectRequest, Respond
<1> QED
  BY <1>2, <1>3, <1>4, <1>5 DEF Next, RequestStep

\* The answers of the checks.
Refused(r) == r.kind = "error" /\ r.error \in {"invalidLegs", "differentCount", "differentAssets"}

\* Only the checks refuse a request.
LEMMA OthersDoNotRefuse ==
    ASSUME [Next]_vars, ~CheckAmounts
    PROVE  reply' = reply \/ ~Refused(reply')
<1>1. ~Refused(Error("legNotProven")) /\ ~Refused(Error("proofServer"))
      /\ ~Refused(Error("submit")) /\ ~Refused(Error("chain"))
      /\ ~Refused([kind |-> "affirmed"]) /\ \A rs : ~Refused(Report(rs))
  BY DEF Error, Report, Refused
<1>2. CASE GetProofDetails
  BY <1>1, <1>2 DEF GetProofDetails, Respond
<1>3. CASE ReportAmounts
  BY <1>1, <1>3 DEF ReportAmounts, Respond
<1>4. CASE ObserverAffirmLeg \/ ObserverAffirmFails
  BY <1>1, <1>4 DEF ObserverAffirmLeg, ObserverAffirmFails, Respond
<1>5. CASE ProofServerStep
  BY <1>1, <1>5 DEF ProofServerStep, ProofServerDecrypts, ProofServerFails, RejectRequest, Respond
<1>6. CASE UNCHANGED vars \/ PartyRejects \/ \E l \in Legs : SenderAffirms(l)
  BY <1>6 DEF vars, PartyRejects, SenderAffirms
<1> QED
  BY <1>2, <1>3, <1>4, <1>5, <1>6 DEF Next, RequestStep

\* A request is turned away only as it should be.
LEMMA RefusalsAreKept ==
    ASSUME AmountsAreSafe, Typed, Justified, Answers, Accounted, CorrectAmountsAreAccepted,
           [Next]_vars
    PROVE  CorrectAmountsAreAccepted'
<1>1. Correct' = Correct /\ endpoint' = endpoint /\ target' = target
  <2>1. UNCHANGED inputVars
    BY StepsKeepInput DEF vars, chainVars, inputVars
  <2> QED
    BY <2>1, InputIsKept DEF inputVars
<1>2. CorrectAmountsAreAccepted <=>
          (Refused(reply) /\ endpoint = "affirm" /\ target \in Legs => ~Correct)
  BY DEF CorrectAmountsAreAccepted, Correct, Refused
<1>3. CorrectAmountsAreAccepted' <=>
          (Refused(reply') /\ endpoint = "affirm" /\ target \in Legs => ~Correct)
  BY <1>1 DEF CorrectAmountsAreAccepted, Correct, Refused
<1>4. CASE CheckAmounts
  <2>1. pc = "decrypting" /\ endpoint = "affirm" /\ AllDecrypted
    BY <1>4 DEF CheckAmounts
  <2>2. CASE Verdict(responses[target], expected[target]) = "ok"
    BY <1>2, <1>3, <1>4, <2>2 DEF CheckAmounts
  <2>3. CASE Verdict(responses[target], expected[target]) # "ok"
    BY <1>3, <2>1, <2>3, CorrectIsChecked
  <2> QED
    BY <2>2, <2>3
<1> QED
  BY <1>2, <1>3, <1>4, OthersDoNotRefuse

-----------------------------------------------------------------------------
\* Part of a report: the responses about the first n legs, each asset once.
IsReportOf(rs, n) ==
    /\ rs \in Seq(Responses)
    /\ Len(rs) = n * Cardinality(Assets)
    /\ \A i \in DOMAIN rs : rs[i].leg < n
    /\ \A i, j \in DOMAIN rs : i < j => rs[i].leg <= rs[j].leg
    /\ \A l \in Legs, a \in Assets : l < n =>
          \E i \in DOMAIN rs : rs[i].leg = l /\ rs[i].asset = a

\* The responses about one leg, each asset once.
IsReportOfLeg(rs, l) ==
    /\ rs \in Seq(Responses)
    /\ Len(rs) = Cardinality(Assets)
    /\ \A i \in DOMAIN rs : rs[i].leg = l
    /\ \A a \in Assets : \E i \in DOMAIN rs : rs[i].asset = a

\* The next leg's responses, behind those of the legs before it.
LEMMA ReportGrows ==
    ASSUME NEW n \in Nat, NEW rs, IsReportOf(rs, n), NEW ss, IsReportOfLeg(ss, n),
           Cardinality(Assets) \in Nat
    PROVE  /\ IsReportOf(rs \o ss, n + 1)
           /\ ToSet(rs \o ss) = ToSet(rs) \cup ToSet(ss)
<1> DEFINE c == Cardinality(Assets)
           both == rs \o ss
           p == Len(rs)
<1>1. /\ rs \in Seq(Responses) /\ ss \in Seq(Responses)
      /\ p \in Nat /\ Len(ss) = c /\ c \in Nat
      /\ DOMAIN rs = 1 .. p /\ DOMAIN ss = 1 .. c
  BY DEF IsReportOf, IsReportOfLeg
<1>2. /\ both \in Seq(Responses) /\ Len(both) = p + c /\ DOMAIN both = 1 .. p + c
      /\ \A i \in 1 .. p + c : both[i] = IF i <= p THEN rs[i] ELSE ss[i - p]
  BY <1>1
<1> HIDE DEF both, c, p
<1>3. \A i \in 1 .. p : i \in 1 .. p + c /\ both[i] = rs[i]
  BY <1>1, <1>2
<1>4. \A i \in 1 .. c : p + i \in 1 .. p + c /\ both[p + i] = ss[i]
  <2> SUFFICES ASSUME NEW i \in 1 .. c
               PROVE  p + i \in 1 .. p + c /\ both[p + i] = ss[i]
    OBVIOUS
  <2>1. p + i \in 1 .. p + c /\ ~(p + i <= p) /\ (p + i) - p = i
    BY <1>1
  <2> QED
    BY <1>2, <2>1
<1>5. \A i \in 1 .. p + c : i \in 1 .. p \/ (i - p \in 1 .. c /\ both[i] = ss[i - p] /\ i > p)
  BY <1>1, <1>2
<1>6. \A i \in 1 .. p : rs[i].leg \in Nat /\ rs[i].leg < n
  <2>1. \A i \in 1 .. p : rs[i] \in Responses
    BY <1>1
  <2> QED
    BY <1>1, <2>1, LegsAssumption DEF IsReportOf, Responses, Legs
<1>7. \A i \in 1 .. c : ss[i].leg = n
  BY <1>1 DEF IsReportOfLeg
<1>8. Len(both) = (n + 1) * Cardinality(Assets)
  <2>1. p = n * c /\ c = Cardinality(Assets)
    BY DEF IsReportOf, p, c
  <2>2. (n + 1) * c = n * c + c
    BY <1>1
  <2> QED
    BY <1>2, <2>1, <2>2
<1>9. \A i \in DOMAIN both : both[i].leg < n + 1
  BY <1>2, <1>3, <1>5, <1>6, <1>7
<1>10. ASSUME NEW i \in DOMAIN both, NEW j \in DOMAIN both, i < j
       PROVE  both[i].leg <= both[j].leg
  <2>1. CASE j \in 1 .. p
    <3>1. i \in 1 .. p
      BY <1>1, <1>2, <1>10, <2>1
    <3> QED
      BY <1>1, <1>3, <1>10, <2>1, <3>1 DEF IsReportOf
  <2>2. CASE j \notin 1 .. p
    <3>1. both[j].leg = n
      BY <1>2, <1>5, <1>7, <2>2
    <3>2. both[i].leg \in Nat /\ both[i].leg <= n
      BY <1>2, <1>3, <1>5, <1>6, <1>7
    <3> QED
      BY <3>1, <3>2
  <2> QED
    BY <2>1, <2>2
<1>11. ASSUME NEW l \in Legs, NEW a \in Assets, l < n + 1
       PROVE  \E i \in DOMAIN both : both[i].leg = l /\ both[i].asset = a
  <2>1. CASE l < n
    <3>1. PICK i \in 1 .. p : rs[i].leg = l /\ rs[i].asset = a
      BY <1>1, <2>1 DEF IsReportOf
    <3> QED
      BY <1>2, <1>3, <3>1
  <2>2. CASE ~(l < n)
    <3>1. l = n
      BY <1>11, <2>2, LegsAssumption DEF Legs
    <3>2. PICK i \in 1 .. c : ss[i].asset = a
      BY <1>1 DEF IsReportOfLeg
    <3> QED
      BY <1>2, <1>4, <1>7, <3>1, <3>2
  <2> QED
    BY <2>1, <2>2
<1>12. ToSet(both) = ToSet(rs) \cup ToSet(ss)
  <2>1. ToSet(both) \subseteq ToSet(rs) \cup ToSet(ss)
    BY <1>1, <1>2, <1>3, <1>5 DEF ToSet
  <2>2. ToSet(rs) \subseteq ToSet(both)
    BY <1>1, <1>2, <1>3 DEF ToSet
  <2>3. ASSUME NEW i \in 1 .. c PROVE ss[i] \in ToSet(both)
    <3>1. p + i \in DOMAIN both /\ both[p + i] = ss[i]
      BY <1>2, <1>4
    <3> QED
      BY <3>1 DEF ToSet
  <2> QED
    BY <1>1, <2>1, <2>2, <2>3 DEF ToSet
<1>13. IsReportOf(both, n + 1)
  BY <1>2, <1>8, <1>9, <1>10, <1>11 DEF IsReportOf
<1> QED
  BY <1>12, <1>13 DEF both

\* The sorted responses of all legs.
LEMMA SortedIsReport ==
    ASSUME NEW rs \in [Legs -> Seq(Responses)], \A l \in Legs : IsReportOfLeg(rs[l], l),
           Cardinality(Assets) \in Nat
    PROVE  /\ IsReportOf(SortedByLeg(rs), LegCount)
           /\ \A x \in ToSet(SortedByLeg(rs)) : \E l \in Legs : x \in ToSet(rs[l])
<1> DEFINE seqs == [i \in 1 .. LegCount |-> rs[i - 1]]
<1>1. /\ LegCount \in Nat
      /\ \A i \in 1 .. LegCount : i - 1 \in Legs /\ seqs[i] = rs[i - 1]
  BY LegsAssumption DEF Legs
<1>2. seqs \in Seq(Seq(Responses)) /\ Len(seqs) = LegCount
  <2>1. \A i \in 1 .. LegCount : rs[i - 1] \in Seq(Responses)
    BY <1>1
  <2> QED
    BY <1>1, <2>1
<1>3. SortedByLeg(rs) = FlattenSeq(seqs)
  BY DEF SortedByLeg
<1> HIDE DEF seqs
<1>4. CASE LegCount = 0
  <2>1. FlattenSeq(seqs) = seqs /\ seqs = <<>>
    BY <1>2, <1>4 DEF FlattenSeq
  <2>2. Legs = {} /\ 0 * Cardinality(Assets) = 0
    BY <1>4 DEF Legs
  <2> QED
    BY <1>3, <1>4, <2>1, <2>2 DEF IsReportOf, ToSet
<1>5. CASE LegCount # 0
  <2>1. PICK f : Concatenates(f, seqs, LegCount) /\ FlattenSeq(seqs) = f[LegCount]
    BY <1>2, <1>5, FlattenSteps
  <2>2. \A i \in 1 .. LegCount : f[i] = IF i = 1 THEN seqs[i] ELSE f[i - 1] \o seqs[i]
    BY <2>1, Zenon DEF Concatenates
  <2> DEFINE Good == {k \in 1 .. LegCount :
                        /\ IsReportOf(f[k], k)
                        /\ \A x \in ToSet(f[k]) : \E l \in Legs : x \in ToSet(rs[l])}
  <2>3. 1 \in Good
    <3>1. 1 \in 1 .. LegCount /\ 0 \in Legs
      BY <1>1, <1>5 DEF Legs
    <3>2. f[1] = rs[0]
      BY <1>1, <2>2, <3>1
    <3>3. IsReportOfLeg(rs[0], 0)
      BY <3>1
    <3>4. \A i \in DOMAIN rs[0] : rs[0][i].leg = 0
      BY <3>3 DEF IsReportOfLeg
    <3>5. \A l \in Legs : l < 1 => l = 0
      BY <1>1 DEF Legs
    <3>6. IsReportOf(rs[0], 1)
      BY <3>3, <3>4, <3>5 DEF IsReportOf, IsReportOfLeg
    <3> QED
      BY <3>1, <3>2, <3>6
  <2>4. ASSUME NEW k \in 2 .. LegCount, k - 1 \in Good PROVE k \in Good
    <3>1. /\ k \in 1 .. LegCount /\ k # 1 /\ k - 1 \in Nat /\ (k - 1) + 1 = k
          /\ k - 1 \in Legs
      BY <1>1 DEF Legs
    <3>2. f[k] = f[k - 1] \o rs[k - 1]
      BY <1>1, <2>2, <3>1
    <3>3. IsReportOf(f[k - 1], k - 1) /\ IsReportOfLeg(rs[k - 1], k - 1)
      BY <2>4, <3>1
    <3>4. /\ IsReportOf(f[k], (k - 1) + 1)
          /\ ToSet(f[k]) = ToSet(f[k - 1]) \cup ToSet(rs[k - 1])
      BY <3>1, <3>2, <3>3, ReportGrows
    <3> QED
      BY <2>4, <3>1, <3>4
  <2> HIDE DEF Good
  <2>5. 1 .. LegCount \subseteq Good
    BY <1>1, <2>3, <2>4, UpTo
  <2>6. LegCount \in Good
    BY <1>1, <1>5, <2>5
  <2> QED
    BY <1>3, <2>1, <2>6 DEF Good
<1> QED
  BY <1>4, <1>5

\* A report has just been put together.
LEMMA ReportIsMade ==
    ASSUME Typed, Justified, Answers, Accounted, ReportAmounts
    PROVE  Reports' /\ ReportIsComplete'
<1>1. /\ pc = "decrypting" /\ endpoint = "verify" /\ AllDecrypted
      /\ reply' = Report(SortedByLeg(responses)) /\ UNCHANGED inputVars /\ proved' = proved
  BY DEF ReportAmounts, Respond, chainVars, inputVars
<1>2. responses \in [Legs -> Seq(Responses)] /\ details \subseteq proved
  BY DEF Typed, TypeOK
<1>3. Cardinality(Assets) \in Nat
  BY LegsAssumption, FS_CardinalityType
<1>4. ASSUME NEW l \in Legs PROVE IsReportOfLeg(responses[l], l)
  <2>1. /\ responses[l] \in Seq(Responses) /\ Len(responses[l]) = Cardinality(Assets)
        /\ \A a \in Assets : \E i \in DOMAIN responses[l] : responses[l][i].asset = a
    BY <1>1, NothingInFlight DEF Asked
  <2>2. \A i \in DOMAIN responses[l] : responses[l][i].leg = l
    BY <1>1 DEF Answers, IsAnswer, ToSet
  <2> QED
    BY <2>1, <2>2 DEF IsReportOfLeg
<1>5. PICK rs : rs = SortedByLeg(responses)
  OBVIOUS
<1>6. /\ IsReportOf(rs, LegCount)
      /\ \A x \in ToSet(rs) : \E l \in Legs : x \in ToSet(responses[l])
  BY <1>2, <1>3, <1>4, <1>5, SortedIsReport
<1>7. reply' = [kind |-> "report", responses |-> rs]
  BY <1>1, <1>5 DEF Report
<1>8. ReportIsComplete'
  <2>1. \A i \in DOMAIN rs : rs[i].leg \in Legs /\ rs[i].asset \in Assets
    <3>1. \A i \in DOMAIN rs : rs[i] \in Responses
      BY <1>6 DEF IsReportOf
    <3> QED
      BY <3>1 DEF Responses
  <2>2. \A l \in Legs : l < LegCount
    BY LegsAssumption DEF Legs
  <2>3. {<<rs[i].leg, rs[i].asset>> : i \in DOMAIN rs} = Legs \X Assets
    <3>1. ASSUME NEW l \in Legs, NEW a \in Assets
          PROVE  \E i \in DOMAIN rs : <<l, a>> = <<rs[i].leg, rs[i].asset>>
      BY <1>6, <2>2 DEF IsReportOf
    <3> QED
      BY <2>1, <3>1
  <2> QED
    BY <1>6, <1>7, <2>3 DEF ReportIsComplete, IsReportOf
<1>9. Reports'
  <2>1. ASSUME NEW x \in ToSet(rs)
        PROVE  /\ x.leg \in Legs /\ x.asset \in Assets
               /\ x.decrypted <=> x.isProved /\ Entitled(x.leg, x.asset)
               /\ x.isProved => x.leg \in proved
               /\ x.decrypted => x.amount = <<Number(amount[x.leg][x.asset])>>
    <3>1. PICK l \in Legs : x \in ToSet(responses[l])
      BY <1>6
    <3>2. IsAnswer(l, x) /\ x \in Responses
      BY <1>1, <1>2, <3>1 DEF Answers, ToSet
    <3> QED
      BY <1>2, <3>1, <3>2 DEF IsAnswer, Responses
  <2>2. amount' = amount /\ \A l, a : Entitled(l, a)' = Entitled(l, a)
    BY <1>1, InputIsKept DEF inputVars
  <2> QED
    BY <1>1, <1>7, <2>1, <2>2 DEF Reports
<1> QED
  BY <1>8, <1>9

\* What was reported stays so: legs stay proved, and nobody else reports.
LEMMA ReportsAreKept ==
    ASSUME Typed, Justified, Answers, Accounted, Reports, ReportIsComplete, [Next]_vars
    PROVE  Reports' /\ ReportIsComplete'
<1>1. /\ UNCHANGED inputVars /\ amount' = amount
      /\ \A l, a : Entitled(l, a)' = Entitled(l, a)
  <2>1. UNCHANGED inputVars
    BY StepsKeepInput DEF vars, chainVars, inputVars
  <2> QED
    BY <2>1, InputIsKept DEF inputVars
<1>2. ASSUME reply' = reply \/ reply'.kind # "report", proved \subseteq proved'
      PROVE  Reports' /\ ReportIsComplete'
  BY <1>1, <1>2 DEF Reports, ReportIsComplete
<1>3. proved \subseteq proved'
  BY DEF Next, SenderAffirms, PartyRejects, ProofServerStep, ProofServerDecrypts,
     ProofServerFails, RequestStep, GetProofDetails, ReportAmounts, CheckAmounts,
     ObserverAffirmLeg, ObserverAffirmFails, vars, chainVars, inputVars
<1>4. ASSUME ~ReportAmounts PROVE reply' = reply \/ reply'.kind # "report"
  <2>1. CASE GetProofDetails \/ CheckAmounts
    BY <2>1 DEF GetProofDetails, CheckAmounts, Respond, Error
  <2>2. CASE ObserverAffirmLeg \/ ObserverAffirmFails
    BY <2>2 DEF ObserverAffirmLeg, ObserverAffirmFails, Respond, Error
  <2>3. CASE ProofServerStep
    BY <2>3 DEF ProofServerStep, ProofServerDecrypts, ProofServerFails, RejectRequest, Respond, Error
  <2>4. CASE UNCHANGED vars \/ PartyRejects \/ \E l \in Legs : SenderAffirms(l)
    BY <2>4 DEF vars, PartyRejects, SenderAffirms
  <2> QED
    BY <1>4, <2>1, <2>2, <2>3, <2>4 DEF Next, RequestStep
<1> QED
  BY <1>2, <1>3, <1>4, ReportIsMade

-----------------------------------------------------------------------------
\* TypeOK, whatever the amounts: in particular only proved legs are decrypted,
\* and what isValid can be.
THEOREM TypeCorrectness == Spec => []TypeOK
<1>1. Init => Typed
  BY InvariantHoldsInitially DEF IInv
<1>2. Typed => TypeOK
  BY DEF Typed
<1> QED
  BY <1>1, <1>2, TypedIsKept, PTL DEF Spec

\* The invariant holds in every reachable state.
LEMMA InvariantHolds == Spec => []IInv
<1>1. IInv /\ [Next]_vars => IInv'
  BY TypedIsKept, AccountsAreKept, ChecksAreKept, ReportsAreKept DEF IInv
<1> QED
  BY <1>1, InvariantHoldsInitially, PTL DEF Spec

\* AffirmedAmountsAreNear: whatever JSON does to the amounts it can hold, what is
\* affirmed and what was expected are one unit apart at most.
THEOREM AffirmedAmountsAreNearExpected ==
    ASSUME AmountsAreHeld PROVE Spec => []AffirmedAmountsAreNear
<1>1. ASSUME IInv, NEW l \in affirmed, NEW a \in Assets
      PROVE  \E e \in ToSet(expected[l]) :
                e.asset = a /\ amount[l][a] <= e.amount + 1 /\ e.amount <= amount[l][a] + 1
  <2>1. l = target /\ l \in Legs /\ AsExpected
    BY <1>1 DEF IInv, Typed, TypeOK, Checked
  <2>2. PICK e \in ToSet(expected[l]) : e.asset = a /\ Number(e.amount) = amount[l][a]
    BY <2>1 DEF AsExpected
  <2>3. e \in Expected
    BY <1>1, <2>1 DEF IInv, Typed, ToSet
  <2>4. e.amount \in Nat
    BY <2>3, LegsAssumption DEF Expected
  <2> QED
    BY <2>2, <2>4, NumberIsNear
<1>2. IInv => AffirmedAmountsAreNear
  BY <1>1 DEF AffirmedAmountsAreNear
<1> QED
  BY <1>2, InvariantHolds, PTL

\* AffirmedAmountsAreExpected: if JSON holds the amounts exactly, a leg is affirmed
\* only when every amount it moves is the one the caller expects.
THEOREM OnlyExpectedAmountsAreAffirmed ==
    ASSUME AmountsAreSafe PROVE Spec => []AffirmedAmountsAreExpected
<1>1. ASSUME IInv, NEW l \in affirmed, NEW a \in Assets
      PROVE  [asset |-> a, amount |-> amount[l][a]] \in ToSet(expected[l])
  <2>1. l = target /\ l \in Legs /\ AsExpected
    BY <1>1 DEF IInv, Typed, TypeOK, Checked
  <2>2. PICK e \in ToSet(expected[l]) : e.asset = a /\ Number(e.amount) = amount[l][a]
    BY <2>1 DEF AsExpected
  <2>3. e \in Expected
    BY <1>1, <2>1 DEF IInv, Typed, ToSet
  <2>4. Number(e.amount) = e.amount /\ e = [asset |-> e.asset, amount |-> e.amount]
    BY <2>3 DEF Expected, AmountsAreSafe, Number
  <2> QED
    BY <2>2, <2>4
<1>2. IInv => AffirmedAmountsAreExpected
  BY <1>1 DEF AffirmedAmountsAreExpected
<1> QED
  BY <1>2, InvariantHolds, PTL

\* CorrectAmountsAreAccepted: if JSON holds the amounts exactly, whoever expects
\* exactly what a leg moves, and can decrypt it all, passes the checks.
THEOREM CorrectAmountsPass ==
    ASSUME AmountsAreSafe PROVE Spec => []CorrectAmountsAreAccepted
<1>1. Init => CorrectAmountsAreAccepted
  BY DEF Init, CorrectAmountsAreAccepted
<1>2. IInv /\ CorrectAmountsAreAccepted /\ [Next]_vars => CorrectAmountsAreAccepted'
  BY RefusalsAreKept DEF IInv
<1> QED
  BY <1>1, <1>2, InvariantHolds, PTL DEF Spec

\* ReportIsComplete: however many legs and assets there are, and in whatever order
\* the decryptions come back, the report lists each asset of each leg once.
THEOREM ReportsAreComplete == Spec => []ReportIsComplete
<1>1. IInv => ReportIsComplete
  BY DEF IInv
<1> QED
  BY <1>1, InvariantHolds, PTL

\* ReportIsTrue: if JSON holds the amounts exactly, a report says of each leg what
\* the chain holds, and decrypts what the key can decrypt.
THEOREM ReportsAreTrue == ASSUME AmountsAreSafe PROVE Spec => []ReportIsTrue
<1>1. ASSUME IInv, reply.kind = "report", NEW x \in ToSet(reply.responses)
      PROVE  /\ x.decrypted <=>
                    x.isProved /\ (receiver[x.leg] \/ x.asset \in auditor[x.leg])
             /\ x.isProved => x.leg \in proved
             /\ x.decrypted => x.amount = <<amount[x.leg][x.asset]>>
  <2>1. /\ x.leg \in Legs /\ x.asset \in Assets
        /\ x.decrypted <=> x.isProved /\ Entitled(x.leg, x.asset)
        /\ x.isProved => x.leg \in proved
        /\ x.decrypted => x.amount = <<Number(amount[x.leg][x.asset])>>
    BY <1>1 DEF IInv, Reports
  <2>2. amount[x.leg][x.asset] \in Amounts
    BY <1>1, <2>1 DEF IInv, Typed
  <2>3. Number(amount[x.leg][x.asset]) = amount[x.leg][x.asset]
    BY <2>2 DEF AmountsAreSafe, Number
  <2> QED
    BY <2>1, <2>3 DEF Entitled
<1>2. IInv => ReportIsTrue
  BY <1>1 DEF ReportIsTrue
<1> QED
  BY <1>2, InvariantHolds, PTL

\* NothingIsAwaitedInVain: an incomplete answer has a decryption under way.
THEOREM SomethingIsUnderWay == Spec => []NothingIsAwaitedInVain
<1>1. ASSUME IInv, pc = "decrypting", requests = {}
      PROVE  AllDecrypted
  <2> SUFFICES ASSUME NEW l \in Decrypting(details)
               PROVE  Len(responses[l]) = Cardinality(Assets)
    BY DEF AllDecrypted
  <2>1. l \in Legs /\ Asked(l)
    BY <1>1 DEF IInv, Typed, TypeOK, Decrypting, Asked
  <2>2. InFlight(l) = {}
    BY <1>1 DEF InFlight
  <2>3. Cardinality(InFlight(l)) = 0
    BY <2>2, FS_EmptySet
  <2>4. Len(responses[l]) \in Nat /\ Len(responses[l]) + 0 = Cardinality(Assets)
    BY <1>1, <2>1, <2>3 DEF IInv, Typed, Accounted
  <2> QED
    BY <2>4
<1>2. IInv => NothingIsAwaitedInVain
  BY <1>1 DEF NothingIsAwaitedInVain
<1> QED
  BY <1>2, InvariantHolds, PTL

=============================================================================
