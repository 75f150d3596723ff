--------------------------- MODULE AggregatorProofs ---------------------------
(***************************************************************************)
(* Proofs about SignerRegistry and about Aggregator, which it serves: for  *)
(* every set of payers and signers and configurations of any length, every *)
(* finite set of receipts, batches of any length and any u128 bound.       *)
(***************************************************************************)
EXTENDS Aggregator, Sums

(***************************************************************************)
(* SignerRegistry.                                                         *)
(***************************************************************************)
(* A list that is still being read has a next pair, and what it holds are  *)
(* pairs.                                                                  *)
LEMMA ListedPairs ==
    ASSUME NEW n \in Nat, NEW list \in ListsUpTo(n)
    PROVE  /\ Len(list) \in Nat
           /\ \A i \in 1 .. Len(list) : list[i] \in Pair
<1>1. PICK k \in 0 .. n : list \in [1 .. k -> Pair]
  BY DEF ListsUpTo
<1>2. list \in Seq(Pair) /\ Len(list) = k
  BY <1>1
<1> QED BY <1>1, <1>2

(* The registry keeps its shape: a payer has its record from its signing   *)
(* key on, and a signer one payer (SignerRegistry::build).                 *)
THEOREM RegistryTypeCorrect == RegistrySpec => []RegistryTypeOK
<1> DEFINE PayerKeys == [signing_key : Signers, accepted_signers : SUBSET Signers]
<1>1. RegistryInit => RegistryTypeOK
  <2> SUFFICES ASSUME RegistryInit PROVE RegistryTypeOK
    OBVIOUS
  <2>1. Len(signing_keys) \in Nat /\ Len(accepted) \in Nat
    BY ListedPairs, RegistryAssumption DEF RegistryInit
  <2> QED BY <2>1 DEF RegistryInit, RegistryTypeOK, Nothing
<1>2. RegistryTypeOK /\ [RegistryNext]_registryVars => RegistryTypeOK'
  <2> SUFFICES ASSUME RegistryTypeOK, [RegistryNext]_registryVars
               PROVE  RegistryTypeOK'
    OBVIOUS
  <2>1. Len(signing_keys) \in Nat /\ Len(accepted) \in Nat
    BY ListedPairs, RegistryAssumption DEF RegistryTypeOK
  <2>2. CASE ReadSigningKey
    <3> DEFINE pair == signing_keys[done + 1]
    <3>1. pair \in Pair
      BY <2>2, ListedPairs, RegistryAssumption DEF ReadSigningKey, RegistryTypeOK
    <3>2. CASE Fail
      BY <3>2 DEF Fail, RegistryTypeOK
    <3>3. CASE ~Fail
      <4>1. /\ signer_payer' = Insert(signer_payer, pair.signer, pair.payer)
            /\ payers' = Insert(payers, pair.payer,
                              [signing_key |-> pair.signer,
                               accepted_signers |-> {pair.signer}])
            /\ done' = done + 1
            /\ UNCHANGED <<signing_keys, accepted, status>>
        BY <2>2, <3>3 DEF ReadSigningKey
      <4>2. done' \in 0 .. Len(signing_keys) + Len(accepted)
        BY <2>1, <2>2, <4>1 DEF ReadSigningKey, RegistryTypeOK
      <4>3. /\ DOMAIN payers' \subseteq Payers
            /\ \A p \in DOMAIN payers' : payers'[p] \in PayerKeys
        BY <3>1, <4>1 DEF Insert, Pair, RegistryTypeOK
      <4>4. /\ DOMAIN signer_payer' \subseteq Signers
            /\ \A s \in DOMAIN signer_payer' : signer_payer'[s] \in Payers
        BY <3>1, <4>1 DEF Insert, Pair, RegistryTypeOK
      <4> QED BY <4>1, <4>2, <4>3, <4>4 DEF RegistryTypeOK
    <3> QED BY <3>2, <3>3
  <2>3. CASE ReadAcceptedSigner
    <3>1. Accepted \in Pair
      BY <2>1, <2>3, ListedPairs, RegistryAssumption
         DEF ReadAcceptedSigner, Accepted, RegistryTypeOK
    <3>2. CASE Fail
      BY <3>2 DEF Fail, RegistryTypeOK
    <3>3. CASE ~Fail
      <4>1. /\ Accepted.payer \in DOMAIN payers
            /\ signer_payer' = Insert(signer_payer, Accepted.signer, Accepted.payer)
            /\ payers' = [payers EXCEPT ![Accepted.payer].accepted_signers =
                                             @ \cup {Accepted.signer}]
            /\ done' = done + 1
            /\ UNCHANGED <<signing_keys, accepted, status>>
        BY <2>3, <3>3 DEF ReadAcceptedSigner
      <4>2. done' \in 0 .. Len(signing_keys) + Len(accepted)
        BY <2>1, <2>3, <4>1 DEF ReadAcceptedSigner, RegistryTypeOK
      <4>3. /\ DOMAIN payers' \subseteq Payers
            /\ \A p \in DOMAIN payers' : payers'[p] \in PayerKeys
        BY <3>1, <4>1 DEF Pair, RegistryTypeOK
      <4>4. /\ DOMAIN signer_payer' \subseteq Signers
            /\ \A s \in DOMAIN signer_payer' : signer_payer'[s] \in Payers
        BY <3>1, <4>1 DEF Insert, Pair, RegistryTypeOK
      <4> QED BY <4>1, <4>2, <4>3, <4>4 DEF RegistryTypeOK
    <3> QED BY <3>2, <3>3
  <2>4. CASE NoPayers
    BY <2>4 DEF NoPayers, Fail, RegistryTypeOK
  <2>5. CASE FinishBuild
    BY <2>5 DEF FinishBuild, RegistryTypeOK
  <2>6. CASE UNCHANGED registryVars
    BY <2>6 DEF registryVars, RegistryTypeOK
  <2> QED BY <2>2, <2>3, <2>4, <2>5, <2>6 DEF RegistryNext
<1> QED BY <1>1, <1>2, PTL DEF RegistrySpec

(* A step of the startup keeps what a payer accepts recorded as the        *)
(* payer's: the first loop takes fresh keys only, the second moves no      *)
(* signer from one payer to another.                                       *)
LEMMA RecordedStep ==
    ASSUME RegistryTypeOK, AcceptedAreRecorded, [RegistryNext]_registryVars
    PROVE  AcceptedAreRecorded'
<1>1. CASE ReadSigningKey
  <2> DEFINE pair == signing_keys[done + 1]
  <2>1. CASE Fail
    BY <2>1 DEF Fail, AcceptedAreRecorded, AcceptedSigners
  <2>2. CASE ~Fail
    <3>1. /\ KeyIsFree(pair)
          /\ signer_payer' = Insert(signer_payer, pair.signer, pair.payer)
          /\ payers' = Insert(payers, pair.payer,
                            [signing_key |-> pair.signer,
                             accepted_signers |-> {pair.signer}])
      BY <1>1, <2>2 DEF ReadSigningKey
    <3> QED
      BY <3>1 DEF KeyIsFree, Insert, AcceptedAreRecorded, AcceptedSigners
  <2> QED BY <2>1, <2>2
<1>2. CASE ReadAcceptedSigner
  <2>1. CASE Fail
    BY <2>1 DEF Fail, AcceptedAreRecorded, AcceptedSigners
  <2>2. CASE ~Fail
    <3>1. /\ Accepted.payer \in DOMAIN payers
          /\ SignerIsFree(Accepted)
          /\ signer_payer' = Insert(signer_payer, Accepted.signer, Accepted.payer)
          /\ payers' = [payers EXCEPT ![Accepted.payer].accepted_signers =
                                           @ \cup {Accepted.signer}]
      BY <1>2, <2>2 DEF ReadAcceptedSigner
    <3>2. \A p \in DOMAIN payers :
             payers[p] \in [signing_key : Signers, accepted_signers : SUBSET Signers]
      BY DEF RegistryTypeOK
    <3>3. ASSUME NEW p \in DOMAIN payers', NEW s \in payers'[p].accepted_signers
          PROVE  s \in DOMAIN signer_payer' /\ signer_payer'[s] = p
      <4>1. p \in DOMAIN payers
        BY <3>1
      <4>2. CASE s \in payers[p].accepted_signers
        <5>1. s \in DOMAIN signer_payer /\ signer_payer[s] = p
          BY <4>1, <4>2 DEF AcceptedAreRecorded, AcceptedSigners
        <5> QED BY <3>1, <5>1 DEF Insert, SignerIsFree
      <4>3. CASE s \notin payers[p].accepted_signers
        <5>1. p = Accepted.payer /\ s = Accepted.signer
          BY <3>1, <3>2, <3>3, <4>1, <4>3
        <5> QED BY <3>1, <5>1 DEF Insert
      <4> QED BY <4>2, <4>3
    <3> QED BY <3>3 DEF AcceptedAreRecorded, AcceptedSigners
  <2> QED BY <2>1, <2>2
<1>3. CASE NoPayers
  BY <1>3 DEF NoPayers, Fail, AcceptedAreRecorded, AcceptedSigners
<1>4. CASE FinishBuild
  BY <1>4 DEF FinishBuild, AcceptedAreRecorded, AcceptedSigners
<1>5. CASE UNCHANGED registryVars
  BY <1>5 DEF registryVars, AcceptedAreRecorded, AcceptedSigners
<1> QED BY <1>1, <1>2, <1>3, <1>4, <1>5 DEF RegistryNext

(* However many keys and accepted signers are configured, in whatever      *)
(* order, no signer ends up under two payers (signers.rs:42).              *)
THEOREM OneSignerOnePayer == RegistrySpec => []OnePayerPerSigner
<1>1. RegistryInit => AcceptedAreRecorded
  BY DEF RegistryInit, AcceptedAreRecorded, Nothing
<1>2. RegistryTypeOK /\ AcceptedAreRecorded /\ [RegistryNext]_registryVars
      => AcceptedAreRecorded'
  BY RecordedStep
<1>3. AcceptedAreRecorded => OnePayerPerSigner
  BY DEF AcceptedAreRecorded, OnePayerPerSigner
<1> QED BY <1>1, <1>2, <1>3, RegistryTypeCorrect, PTL DEF RegistrySpec

-----------------------------------------------------------------------------
(* What has been read of the two lists.                                    *)
KeysRead == {signing_keys[i] : i \in {j \in 1 .. Len(signing_keys) : j <= done}}
AcceptedRead ==
    {accepted[i] : i \in {j \in 1 .. Len(accepted) : j + Len(signing_keys) <= done}}
Read == KeysRead \cup AcceptedRead

(* The registry is what was read so far, and nothing in it was             *)
(* contradictory: the invariant behind RegistryMatchesConfig.              *)
BuiltFromRead ==
    /\ DOMAIN payers = {k.payer : k \in KeysRead}
    /\ \A i, j \in 1 .. Len(signing_keys) :
          i <= done /\ j <= done /\ i # j
             => signing_keys[i].payer # signing_keys[j].payer
    /\ DOMAIN signer_payer = {a.signer : a \in Read}
    /\ \A a \in Read : signer_payer[a.signer] = a.payer /\ a.payer \in DOMAIN payers
    /\ \A p \in DOMAIN payers :
          AcceptedSigners(p) = {a.signer : a \in {b \in Read : b.payer = p}}
    /\ status = "failed" => ~Consistent
    /\ status = "built" => /\ done = Len(signing_keys) + Len(accepted)
                           /\ DOMAIN payers # {}

(* The lists do not change, and both have a length.                        *)
LEMMA ListsAreSequences ==
    ASSUME RegistryTypeOK
    PROVE  /\ Len(signing_keys) \in Nat /\ Len(accepted) \in Nat
           /\ DOMAIN signing_keys = 1 .. Len(signing_keys)
           /\ DOMAIN accepted = 1 .. Len(accepted)
           /\ \A i \in 1 .. Len(signing_keys) : signing_keys[i] \in Pair
           /\ \A i \in 1 .. Len(accepted) : accepted[i] \in Pair
           /\ done \in Nat
           /\ done <= Len(signing_keys) + Len(accepted)
<1>1. ASSUME NEW n \in Nat, NEW list \in ListsUpTo(n)
      PROVE  DOMAIN list = 1 .. Len(list)
  BY <1>1 DEF ListsUpTo
<1>2. Len(signing_keys) \in Nat /\ Len(accepted) \in Nat
  BY ListedPairs, RegistryAssumption DEF RegistryTypeOK
<1> QED BY <1>1, <1>2, ListedPairs, RegistryAssumption DEF RegistryTypeOK

(* Reading a signing key adds it to what was read.                         *)
LEMMA OneMoreKey ==
    ASSUME RegistryTypeOK, done < Len(signing_keys), done' = done + 1,
           UNCHANGED <<signing_keys, accepted>>
    PROVE  /\ KeysRead' = KeysRead \cup {signing_keys[done + 1]}
           /\ AcceptedRead = {} /\ AcceptedRead' = {}
<1>1. /\ Len(signing_keys) \in Nat /\ Len(accepted) \in Nat /\ done \in Nat
      /\ Len(signing_keys') = Len(signing_keys) /\ Len(accepted') = Len(accepted)
      /\ signing_keys' = signing_keys /\ accepted' = accepted
  BY ListsAreSequences
<1>2. \A j \in Nat : j <= done + 1 <=> j <= done \/ j = done + 1
  BY <1>1
<1>3. done + 1 \in 1 .. Len(signing_keys)
  BY <1>1
<1>4. KeysRead' = KeysRead \cup {signing_keys[done + 1]}
  BY <1>1, <1>2, <1>3 DEF KeysRead
<1>5. AcceptedRead = {} /\ AcceptedRead' = {}
  BY <1>1 DEF AcceptedRead
<1> QED BY <1>4, <1>5

(* Reading an accepted signer adds it.                                     *)
LEMMA OneMoreAccepted ==
    ASSUME RegistryTypeOK, done >= Len(signing_keys),
           done < Len(signing_keys) + Len(accepted), done' = done + 1,
           UNCHANGED <<signing_keys, accepted>>
    PROVE  /\ KeysRead' = KeysRead
           /\ AcceptedRead' = AcceptedRead \cup {Accepted}
           /\ Accepted \in Listed(accepted)
<1>1. /\ Len(signing_keys) \in Nat /\ Len(accepted) \in Nat /\ done \in Nat
      /\ DOMAIN accepted = 1 .. Len(accepted)
      /\ signing_keys' = signing_keys /\ accepted' = accepted
  BY ListsAreSequences
<1> DEFINE n == done - Len(signing_keys) + 1
<1>2. n \in 1 .. Len(accepted)
  BY <1>1
<1>3. \A j \in 1 .. Len(accepted) :
         j + Len(signing_keys) <= done + 1
            <=> j + Len(signing_keys) <= done \/ j = n
  BY <1>1
<1>4. AcceptedRead' = AcceptedRead \cup {Accepted}
  <2> HIDE DEF n
  <2>1. AcceptedRead' = AcceptedRead \cup {accepted[n]}
    BY <1>1, <1>2, <1>3 DEF AcceptedRead
  <2> QED BY <2>1 DEF Accepted, n
<1>5. KeysRead' = KeysRead
  BY <1>1 DEF KeysRead
<1>6. Accepted \in Listed(accepted)
  BY <1>1, <1>2 DEF Listed, Accepted
<1> QED BY <1>4, <1>5, <1>6

(* All of it is read in the end, and no more than was listed before.       *)
LEMMA ReadIsListed ==
    ASSUME RegistryTypeOK
    PROVE  /\ KeysRead \subseteq Listed(signing_keys)
           /\ AcceptedRead \subseteq Listed(accepted)
           /\ done >= Len(signing_keys) => KeysRead = Listed(signing_keys)
           /\ done = Len(signing_keys) + Len(accepted) =>
                 AcceptedRead = Listed(accepted)
  BY ListsAreSequences DEF KeysRead, AcceptedRead, Listed

(* A step that reads nothing changes neither what was read nor whether     *)
(* the registry is made of it.                                             *)
LEMMA NothingMoreRead ==
    ASSUME BuiltFromRead,
           UNCHANGED <<signing_keys, accepted, done, payers, signer_payer>>,
           status' = "failed" => ~Consistent,
           status' = "built" => /\ done = Len(signing_keys) + Len(accepted)
                                /\ DOMAIN payers # {}
    PROVE  BuiltFromRead'
<1>1. KeysRead' = KeysRead /\ AcceptedRead' = AcceptedRead
  BY DEF KeysRead, AcceptedRead
<1>2. Read' = Read
  BY <1>1 DEF Read
<1>3. Consistent' <=> Consistent
  <2>1. Listed(signing_keys)' = Listed(signing_keys) /\ Listed(accepted)' = Listed(accepted)
    BY DEF Listed
  <2> QED BY <2>1 DEF Consistent
<1>4. \A p : AcceptedSigners(p)' = AcceptedSigners(p)
  BY DEF AcceptedSigners
<1> HIDE DEF KeysRead, Read, Consistent, AcceptedSigners
<1> QED BY <1>1, <1>2, <1>3, <1>4 DEF BuiltFromRead

(* A signing key is added to a registry that is what was read.             *)
LEMMA KeyKeepsRead ==
    ASSUME RegistryTypeOK, BuiltFromRead, ReadSigningKey
    PROVE  BuiltFromRead'
<1> DEFINE pair == signing_keys[done + 1]
<1>1. /\ Len(signing_keys) \in Nat /\ Len(accepted) \in Nat /\ done \in Nat
      /\ DOMAIN signing_keys = 1 .. Len(signing_keys)
      /\ done < Len(signing_keys) /\ done + 1 \in 1 .. Len(signing_keys)
      /\ pair \in Pair /\ status = "building"
  BY ListsAreSequences DEF ReadSigningKey
<1>2. AcceptedRead = {} /\ Read = KeysRead
  BY <1>1 DEF AcceptedRead, Read
<1>3. CASE ~KeyIsFree(pair)
  <2>1. Fail
    BY <1>3 DEF ReadSigningKey
  <2>2. ~Consistent
    <3>1. CASE pair.payer \in DOMAIN payers
      <4>1. PICK j \in 1 .. Len(signing_keys) :
               j <= done /\ signing_keys[j].payer = pair.payer
        BY <3>1 DEF BuiltFromRead, KeysRead
      <4>2. j # done + 1
        BY <1>1, <4>1
      <4> QED BY <1>1, <4>1, <4>2 DEF Consistent
    <3>2. CASE pair.payer \notin DOMAIN payers
      <4>1. pair.signer \in DOMAIN signer_payer
        BY <1>3, <3>2 DEF KeyIsFree
      <4>2. PICK a \in KeysRead : a.signer = pair.signer
        BY <1>2, <4>1 DEF BuiltFromRead
      <4>3. a.payer \in DOMAIN payers
        BY <1>2, <4>2 DEF BuiltFromRead
      <4>4. a \in Listed(signing_keys) /\ pair \in Listed(signing_keys)
        BY <1>1, ReadIsListed DEF Listed
      <4> QED BY <3>2, <4>2, <4>3, <4>4 DEF Consistent
    <3> QED BY <3>1, <3>2
  <2> QED BY <2>1, <2>2, NothingMoreRead DEF Fail
<1>4. CASE KeyIsFree(pair)
  <2>1. /\ signer_payer' = Insert(signer_payer, pair.signer, pair.payer)
        /\ payers' = Insert(payers, pair.payer,
                          [signing_key |-> pair.signer,
                           accepted_signers |-> {pair.signer}])
        /\ done' = done + 1
        /\ UNCHANGED <<signing_keys, accepted, status>>
    BY <1>4 DEF ReadSigningKey
  <2>2. KeysRead' = KeysRead \cup {pair} /\ Read' = Read \cup {pair}
    BY <1>1, <1>2, <2>1, OneMoreKey DEF Read
  <2>3. DOMAIN payers' = {k.payer : k \in KeysRead'}
    BY <2>1, <2>2 DEF BuiltFromRead, Insert
  <2>4. ASSUME NEW i \in 1 .. Len(signing_keys), NEW j \in 1 .. Len(signing_keys),
               i <= done + 1, j <= done + 1, i # j
        PROVE  signing_keys[i].payer # signing_keys[j].payer
    <3>1. \A k \in 1 .. Len(signing_keys) :
             k <= done => signing_keys[k].payer # pair.payer
      BY <1>4 DEF KeyIsFree, BuiltFromRead, KeysRead
    <3>2. \/ i <= done /\ j <= done
          \/ i = done + 1 /\ j <= done
          \/ i <= done /\ j = done + 1
      BY <1>1, <2>4
    <3> QED BY <2>4, <3>1, <3>2 DEF BuiltFromRead
  <2>5. DOMAIN signer_payer' = {a.signer : a \in Read'}
    BY <2>1, <2>2 DEF BuiltFromRead, Insert
  <2>6. \A a \in Read : a.signer # pair.signer /\ a.payer # pair.payer
    BY <1>4 DEF KeyIsFree, BuiltFromRead
  <2>7. \A a \in Read' : signer_payer'[a.signer] = a.payer /\ a.payer \in DOMAIN payers'
    BY <2>1, <2>2, <2>6 DEF BuiltFromRead, Insert
  <2>8. ASSUME NEW p \in DOMAIN payers'
        PROVE  AcceptedSigners(p)' = {a.signer : a \in {b \in Read' : b.payer = p}}
    <3>1. CASE p = pair.payer
      <4>1. {b \in Read' : b.payer = p} = {pair}
        BY <2>2, <2>6, <3>1
      <4>2. AcceptedSigners(p)' = {pair.signer}
        BY <2>1, <3>1 DEF Insert, AcceptedSigners
      <4> QED BY <4>1, <4>2
    <3>2. CASE p # pair.payer
      <4>1. {b \in Read' : b.payer = p} = {b \in Read : b.payer = p}
        BY <2>2, <3>2
      <4>2. p \in DOMAIN payers /\ AcceptedSigners(p)' = AcceptedSigners(p)
        BY <2>1, <3>2 DEF Insert, AcceptedSigners
      <4> QED BY <4>1, <4>2 DEF BuiltFromRead
    <3> QED BY <3>1, <3>2
  <2>9. status' = "building"
    BY <1>1, <2>1
  <2> QED BY <2>1, <2>3, <2>4, <2>5, <2>7, <2>8, <2>9 DEF BuiltFromRead
<1> QED BY <1>3, <1>4

(* And so is an accepted signer.                                           *)
LEMMA AcceptedKeepsRead ==
    ASSUME RegistryTypeOK, BuiltFromRead, ReadAcceptedSigner
    PROVE  BuiltFromRead'
<1> DEFINE pair == Accepted
<1>1. /\ Len(signing_keys) \in Nat /\ Len(accepted) \in Nat /\ done \in Nat
      /\ done >= Len(signing_keys) /\ done < Len(signing_keys) + Len(accepted)
      /\ status = "building"
  BY ListsAreSequences DEF ReadAcceptedSigner
<1>2. pair \in Listed(accepted)
  <2>1. done - Len(signing_keys) + 1 \in 1 .. Len(accepted)
    BY <1>1
  <2> QED BY <2>1, ListsAreSequences DEF Accepted, Listed
<1>3. CASE ~(pair.payer \in DOMAIN payers /\ SignerIsFree(pair))
  <2>1. Fail
    BY <1>3 DEF ReadAcceptedSigner
  <2>2. ~Consistent
    <3>1. KeysRead = Listed(signing_keys) /\ AcceptedRead \subseteq Listed(accepted)
      BY <1>1, ReadIsListed
    <3>2. CASE pair.payer \notin DOMAIN payers
      BY <1>2, <3>1, <3>2 DEF BuiltFromRead, Consistent
    <3>3. CASE ~SignerIsFree(pair)
      <4>1. /\ pair.signer \in DOMAIN signer_payer
            /\ signer_payer[pair.signer] # pair.payer
        BY <3>3 DEF SignerIsFree
      <4>2. PICK a \in Read : a.signer = pair.signer
        BY <4>1 DEF BuiltFromRead
      <4>3. a.payer # pair.payer
        BY <4>1, <4>2 DEF BuiltFromRead
      <4>4. a \in Listed(signing_keys) \cup Listed(accepted)
        BY <3>1 DEF Read
      <4> QED BY <1>2, <4>2, <4>3, <4>4 DEF Consistent
    <3> QED BY <1>3, <3>2, <3>3
  <2> QED BY <2>1, <2>2, NothingMoreRead DEF Fail
<1>4. CASE pair.payer \in DOMAIN payers /\ SignerIsFree(pair)
  <2>1. /\ signer_payer' = Insert(signer_payer, pair.signer, pair.payer)
        /\ payers' = [payers EXCEPT ![pair.payer].accepted_signers =
                                       @ \cup {pair.signer}]
        /\ done' = done + 1
        /\ UNCHANGED <<signing_keys, accepted, status>>
    BY <1>4 DEF ReadAcceptedSigner
  <2>2. KeysRead' = KeysRead /\ Read' = Read \cup {pair}
    BY <1>1, <2>1, OneMoreAccepted DEF Read
  <2> HIDE DEF pair
  <2>3. DOMAIN payers' = DOMAIN payers
    BY <2>1
  <2>4. ASSUME NEW i \in 1 .. Len(signing_keys), NEW j \in 1 .. Len(signing_keys),
               i # j
        PROVE  signing_keys[i].payer # signing_keys[j].payer
    BY <1>1, <2>4 DEF BuiltFromRead
  <2>5. DOMAIN signer_payer' = {a.signer : a \in Read'}
    BY <2>1, <2>2 DEF BuiltFromRead, Insert
  <2>6. \A a \in Read : a.signer = pair.signer => a.payer = pair.payer
    BY <1>4 DEF SignerIsFree, BuiltFromRead
  <2>7. \A a \in Read' : signer_payer'[a.signer] = a.payer /\ a.payer \in DOMAIN payers'
    BY <1>4, <2>1, <2>2, <2>3, <2>6 DEF BuiltFromRead, Insert
  <2>8. ASSUME NEW p \in DOMAIN payers'
        PROVE  AcceptedSigners(p)' = {a.signer : a \in {b \in Read' : b.payer = p}}
    <3>1. CASE p = pair.payer
      <4>1. {b \in Read' : b.payer = p} = {b \in Read : b.payer = p} \cup {pair}
        BY <2>2, <3>1
      <4>2. AcceptedSigners(p)' = AcceptedSigners(p) \cup {pair.signer}
        BY <1>4, <2>1, <3>1 DEF AcceptedSigners, RegistryTypeOK
      <4>3. AcceptedSigners(p) = {a.signer : a \in {b \in Read : b.payer = p}}
        BY <2>3 DEF BuiltFromRead
      <4> QED BY <4>1, <4>2, <4>3
    <3>2. CASE p # pair.payer
      <4>1. {b \in Read' : b.payer = p} = {b \in Read : b.payer = p}
        BY <2>2, <3>2
      <4>2. p \in DOMAIN payers /\ AcceptedSigners(p)' = AcceptedSigners(p)
        BY <2>1, <3>2 DEF AcceptedSigners
      <4> QED BY <4>1, <4>2 DEF BuiltFromRead
    <3> QED BY <3>1, <3>2
  <2>9. status' = "building"
    BY <1>1, <2>1
  <2> QED BY <2>1, <2>2, <2>3, <2>4, <2>5, <2>7, <2>8, <2>9 DEF BuiltFromRead
<1> QED BY <1>3, <1>4

(* What a finished registry was built from is all that was configured, and *)
(* it was consistent.                                                      *)
LEMMA BuiltMatches ==
    ASSUME RegistryTypeOK, BuiltFromRead
    PROVE  RegistryMatchesConfig
<1>1. CASE status = "built"
  <2>1. /\ done = Len(signing_keys) + Len(accepted)
        /\ DOMAIN payers # {}
    BY <1>1 DEF BuiltFromRead
  <2>2. KeysRead = Listed(signing_keys) /\ AcceptedRead = Listed(accepted)
    BY <2>1, ListsAreSequences, ReadIsListed
  <2>3. Consistent
    <3>1. signing_keys # << >>
      BY <2>1, <2>2 DEF BuiltFromRead, Listed
    <3>2. \A i, j \in DOMAIN signing_keys :
             i # j => signing_keys[i].payer # signing_keys[j].payer
      <4>1. /\ DOMAIN signing_keys = 1 .. Len(signing_keys)
            /\ Len(signing_keys) \in Nat /\ Len(accepted) \in Nat
        BY ListsAreSequences
      <4> QED BY <2>1, <4>1 DEF BuiltFromRead
    <3>3. \A a, b \in Read : a.signer = b.signer => a.payer = b.payer
      BY DEF BuiltFromRead
    <3>4. \A a \in Read : \E k \in KeysRead : k.payer = a.payer
      BY DEF BuiltFromRead
    <3> QED BY <2>2, <3>1, <3>2, <3>3, <3>4 DEF Consistent, Read
  <2> QED BY <1>1, <2>2, <2>3 DEF RegistryMatchesConfig, BuiltFromRead, Read
<1>2. CASE status # "built"
  BY <1>2 DEF BuiltFromRead, RegistryMatchesConfig
<1> QED BY <1>1, <1>2

(* A list that lists nothing is empty.                                     *)
LEMMA ListedIsEmpty ==
    ASSUME NEW n \in Nat, NEW list \in ListsUpTo(n), Listed(list) = {}
    PROVE  list = << >>
<1>1. Len(list) \in Nat /\ list \in Seq(Pair) /\ DOMAIN list = 1 .. Len(list)
  BY DEF ListsUpTo
<1>2. Len(list) = 0
  <2>1. ASSUME Len(list) # 0 PROVE FALSE
    <3>1. 1 \in DOMAIN list
      BY <1>1, <2>1
    <3> QED BY <3>1 DEF Listed
  <2> QED BY <2>1
<1> QED BY <1>1, <1>2

(* Every step of the startup keeps the registry what was read.             *)
LEMMA ReadStep ==
    ASSUME RegistryTypeOK, BuiltFromRead, [RegistryNext]_registryVars
    PROVE  BuiltFromRead'
<1>1. CASE NoPayers
  <2>1. Fail
    BY <1>1 DEF NoPayers
  <2>2. KeysRead = Listed(signing_keys)
    BY <1>1, ReadIsListed DEF NoPayers
  <2>3. Listed(signing_keys) = {}
    BY <1>1, <2>2 DEF NoPayers, BuiltFromRead
  <2>4. signing_keys = << >>
    BY <2>3, ListedIsEmpty, RegistryAssumption DEF RegistryTypeOK
  <2>5. ~Consistent
    BY <2>4 DEF Consistent
  <2> QED BY <2>1, <2>5, NothingMoreRead DEF Fail
<1>2. CASE FinishBuild
  BY <1>2, NothingMoreRead DEF FinishBuild
<1>3. CASE UNCHANGED registryVars
  <2>1. /\ status = "failed" => ~Consistent
        /\ status = "built" => /\ done = Len(signing_keys) + Len(accepted)
                               /\ DOMAIN payers # {}
    BY DEF BuiltFromRead
  <2> QED BY <1>3, <2>1, NothingMoreRead DEF registryVars
<1> QED BY <1>1, <1>2, <1>3, KeyKeepsRead, AcceptedKeepsRead DEF RegistryNext

(* In the beginning nothing is read.                                       *)
LEMMA NothingIsRead ==
    ASSUME RegistryInit
    PROVE  BuiltFromRead
<1>1. /\ Len(signing_keys) \in Nat /\ Len(accepted) \in Nat
  BY ListedPairs, RegistryAssumption DEF RegistryInit
<1>2. KeysRead = {} /\ AcceptedRead = {} /\ Read = {}
  BY <1>1 DEF RegistryInit, KeysRead, AcceptedRead, Read
<1>3. \A i \in 1 .. Len(signing_keys) : ~ (i <= done)
  BY <1>1 DEF RegistryInit
<1> QED BY <1>2, <1>3 DEF RegistryInit, BuiltFromRead, Nothing

(* Startup succeeds on exactly the consistent configurations, of any       *)
(* length and in any order, and then a payer accepts what was listed for   *)
(* it and no more (SignerRegistry::build).                                 *)
THEOREM RegistryIsTheConfig == RegistrySpec => []RegistryMatchesConfig
<1>1. RegistryInit => BuiltFromRead
  BY NothingIsRead
<1>2. RegistryTypeOK /\ BuiltFromRead /\ [RegistryNext]_registryVars
      => BuiltFromRead'
  BY ReadStep
<1>3. RegistryTypeOK /\ BuiltFromRead => RegistryMatchesConfig
  BY BuiltMatches
<1> QED BY <1>1, <1>2, <1>3, RegistryTypeCorrect, PTL DEF RegistrySpec

(* The key a payer's RAVs are signed with is one of its accepted signers.  *)
KeyIsAccepted == \A p \in DOMAIN payers : SigningKey(p) \in AcceptedSigners(p)

(* Nothing takes the key out again.                                        *)
LEMMA KeyStaysAccepted ==
    ASSUME RegistryTypeOK, KeyIsAccepted, [RegistryNext]_registryVars
    PROVE  KeyIsAccepted'
<1>1. CASE payers' = payers
  BY <1>1 DEF KeyIsAccepted, SigningKey, AcceptedSigners
<1>2. ASSUME NEW pair,
             payers' = Insert(payers, pair.payer,
                          [signing_key |-> pair.signer,
                           accepted_signers |-> {pair.signer}])
      PROVE  KeyIsAccepted'
  BY <1>2 DEF KeyIsAccepted, SigningKey, AcceptedSigners, Insert
<1>3. ASSUME NEW pair, pair.payer \in DOMAIN payers,
             payers' = [payers EXCEPT ![pair.payer].accepted_signers =
                                             @ \cup {pair.signer}]
      PROVE  KeyIsAccepted'
  <2>1. \A p \in DOMAIN payers :
           payers[p] \in [signing_key : Signers, accepted_signers : SUBSET Signers]
    BY DEF RegistryTypeOK
  <2>2. ASSUME NEW p \in DOMAIN payers
        PROVE  payers'[p].signing_key \in payers'[p].accepted_signers
    <3>1. payers[p].signing_key \in payers[p].accepted_signers
      BY DEF KeyIsAccepted, SigningKey, AcceptedSigners
    <3>2. CASE p = pair.payer
      BY <1>3, <2>1, <3>1, <3>2
    <3>3. CASE p # pair.payer
      BY <1>3, <3>1, <3>3
    <3> QED BY <3>2, <3>3
  <2> QED BY <1>3, <2>2 DEF KeyIsAccepted, SigningKey, AcceptedSigners
<1>4. CASE ReadSigningKey
  BY <1>1, <1>2, <1>4 DEF ReadSigningKey, Fail
<1>5. CASE ReadAcceptedSigner
  BY <1>1, <1>3, <1>5 DEF ReadAcceptedSigner, Fail
<1> QED BY <1>1, <1>4, <1>5
      DEF RegistryNext, NoPayers, FinishBuild, Fail, registryVars

(* RAVs are signed with a key the payer itself accepts                     *)
(* (SignerRegistry::build puts it among the accepted signers).             *)
THEOREM KeysAreAccepted == RegistrySpec => []KeyIsAccepted
<1>1. RegistryInit => KeyIsAccepted
  BY DEF RegistryInit, KeyIsAccepted, Nothing
<1>2. RegistryTypeOK /\ KeyIsAccepted /\ [RegistryNext]_registryVars
      => KeyIsAccepted'
  BY KeyStaysAccepted
<1> QED BY <1>1, <1>2, RegistryTypeCorrect, PTL DEF RegistrySpec

(***************************************************************************)
(* Aggregator.                                                             *)
(***************************************************************************)
(* The entries of a batch are as many as its receipts.                     *)
LEMMA RequestBatch ==
    ASSUME NEW receipts \in Requests, check_signatures_unique(receipts)
    PROVE  /\ IsFiniteSet(Entries(receipts))
           /\ \A e \in Entries(receipts) :
                 e.receipt \in Receipts /\ \E i \in DOMAIN receipts : e.receipt = receipts[i]
           /\ \A e, f \in Entries(receipts) : e.receipt = f.receipt => e = f
           /\ ReceiptsOf(Entries(receipts)) = {receipts[i] : i \in DOMAIN receipts}
           /\ Len(receipts) \in Nat
           /\ Cardinality({receipts[i] : i \in DOMAIN receipts}) = Len(receipts)
<1>1. PICK n \in 0 .. MaxBatch : receipts \in [1 .. n -> Receipts]
  BY DEF Requests
<1>2. n \in Nat
  BY <1>1, AggregatorAssumption
<1>3. IsFiniteSet(DOMAIN receipts)
  BY <1>1, <1>2, FS_Interval
<1>4. IsFiniteSet({[id |-> i, receipt |-> receipts[i]] : i \in DOMAIN receipts})
  <2> DEFINE h == [i \in DOMAIN receipts |-> [id |-> i, receipt |-> receipts[i]]]
  <2>1. IsFiniteSet({h[i] : i \in DOMAIN receipts})
    <3> HIDE DEF h
    <3> QED BY <1>3, FiniteImage
  <2> QED BY <2>1
<1>5. \A e \in Entries(receipts) :
         e.receipt \in Receipts /\ \E i \in DOMAIN receipts : e.receipt = receipts[i]
  BY <1>1 DEF Entries
<1>6. \A e, f \in Entries(receipts) : e.receipt = f.receipt => e = f
  BY DEF Entries, check_signatures_unique
<1>7. ReceiptsOf(Entries(receipts)) = {receipts[i] : i \in DOMAIN receipts}
  <2>1. ASSUME NEW i \in DOMAIN receipts
        PROVE  receipts[i] \in ReceiptsOf(Entries(receipts))
    <3>1. [id |-> i, receipt |-> receipts[i]] \in Entries(receipts)
      BY DEF Entries
    <3>2. [id |-> i, receipt |-> receipts[i]].receipt = receipts[i]
      OBVIOUS
    <3> QED BY <3>1, <3>2 DEF ReceiptsOf
  <2>2. \A x \in ReceiptsOf(Entries(receipts)) :
           \E i \in DOMAIN receipts : x = receipts[i]
    BY <1>5 DEF ReceiptsOf
  <2> QED BY <2>1, <2>2
<1>8. Cardinality({receipts[i] : i \in DOMAIN receipts}) = Len(receipts)
  <2> DEFINE Named == {receipts[i] : i \in 1 .. n}
  <2>1. receipts \in Bijection(1 .. n, Named)
    <3>1. receipts \in [1 .. n -> Named] /\ DOMAIN receipts = 1 .. n
      BY <1>1
    <3>2. \A i, j \in 1 .. n : receipts[i] = receipts[j] => i = j
      BY <3>1 DEF check_signatures_unique
    <3>3. \A r \in Named : \E i \in 1 .. n : receipts[i] = r
      OBVIOUS
    <3> HIDE DEF Named
    <3> QED BY <3>1, <3>2, <3>3 DEF Bijection, Injection, Surjection,
                                           IsInjective
  <2>2. ExistsBijection(1 .. n, Named)
    BY <2>1 DEF ExistsBijection
  <2>3. IsFiniteSet(1 .. n) /\ Cardinality(1 .. n) = n
    BY <1>2, FS_Interval
  <2>4. Len(receipts) = n /\ DOMAIN receipts = 1 .. n
    BY <1>1, <1>2
  <2> HIDE DEF Named
  <2>5. Cardinality(Named) = n
    BY <2>2, <2>3, FS_Bijection
  <2> QED BY <2>4, <2>5 DEF Named
<1>9. Len(receipts) \in Nat
  BY <1>1, <1>2
<1> QED BY <1>4, <1>5, <1>6, <1>7, <1>8, <1>9 DEF Entries

(* The answer to an accepted request is worth its receipts: none of them   *)
(* is in the previous RAV, whose timestamp they are all later than.        *)
LEMMA AnswerIsBacked ==
    ASSUME NEW receipts \in Requests, NEW previous,
           previous = NoRav \/ (previous \in Rav /\ Backed(previous)),
           Accepts(receipts, previous), RegistryTypeOK,
           NEW answer \in check_and_aggregate_receipts(receipts, previous)
    PROVE  /\ answer \in Rav
           /\ Backed(answer)
           /\ answer.payer = receipts[1].payer
           /\ answer.signer = SigningKey(receipts[1].payer)
           /\ answer.sources = previous.sources \cup {receipts[i] : i \in DOMAIN receipts}
           /\ previous.sources \cap {receipts[i] : i \in DOMAIN receipts} = {}
           /\ answer.value = previous.value + TotalValue(Entries(receipts))
           /\ TotalValue(Entries(receipts)) \in Nat
<1> DEFINE batch == Entries(receipts)
           new == ReceiptsOf(batch)
           old == previous.sources
           first == receipts[1]
           worth(S) == MapThenSumSet(LAMBDA r : r.value, S)
           stamps == {previous.timestamp_ns} \cup {r.timestamp_ns : r \in new}
<1>1. PICK rav \in Aggregate(batch, previous) : answer = SignedRav(rav, first)
  BY DEF check_and_aggregate_receipts
<1>2. /\ rav.value = previous.value + TotalValue(batch)
      /\ rav.value \in Values
      /\ rav.timestamp_ns \in stamps
      /\ \A u \in stamps : u <= rav.timestamp_ns
      /\ rav.sources = old \cup new
      /\ batch # {}
  BY <1>1 DEF Aggregate
<1>3. /\ first \in Receipts /\ first.payer \in Payers
      /\ first.stream \in {r.stream : r \in Receipts}
      /\ SigningKey(first.payer) \in Signers
  <2>1. 1 \in DOMAIN receipts /\ receipts[1] \in Receipts
    BY DEF Accepts, Requests
  <2>2. first.payer \in DOMAIN payers
    BY DEF Accepts, Serves
  <2> QED BY <2>1, <2>2 DEF RegistryTypeOK, SigningKey
<1>4. /\ IsFiniteSet(batch)
      /\ \A e \in batch :
            e.receipt \in Receipts /\ \E i \in DOMAIN receipts : e.receipt = receipts[i]
      /\ \A e, f \in batch : e.receipt = f.receipt => e = f
      /\ new = {receipts[i] : i \in DOMAIN receipts}
  BY RequestBatch DEF Accepts
<1>5. /\ new \subseteq Receipts
      /\ \A r \in new : r.timestamp_ns > previous.timestamp_ns /\ SameIds(r, first)
  BY <1>4 DEF Accepts, check_receipt_timestamps, check_collection_id, ReceiptsOf
<1>6. /\ old \subseteq Receipts
      /\ previous.value = worth(old)
      /\ \A r \in old : SameIds(r, first) /\ r.timestamp_ns <= previous.timestamp_ns
      /\ previous.timestamp_ns \in Int
  <2>1. CASE previous = NoRav
    <3>1. worth({}) = 0
      <4>1. worth({}) = SumOver([r \in {} |-> r.value], {})
        BY ValueSum, FS_EmptySet
      <4> QED BY <4>1, SumEmpty
    <3> QED BY <2>1, <3>1 DEF NoRav
  <2>2. CASE previous # NoRav
    <3>1. SameIds(previous, first)
      BY <2>2 DEF Accepts, check_previous_rav
    <3> QED BY <2>2, <3>1 DEF Rav, Backed, SameIds
  <2> QED BY <2>1, <2>2
<1>7. \A r \in Receipts : r.timestamp_ns \in Nat /\ r.timestamp_ns > 0 /\ r.value \in Nat
  BY AggregatorAssumption
<1>8. old \cap new = {}
  BY <1>5, <1>6, <1>7
<1>9. rav.value = worth(old \cup new) /\ TotalValue(batch) \in Nat
  <2>1. TotalValue(batch) = worth(new)
    <3>1. \A e \in batch : e.receipt.value \in Int
      BY <1>4, <1>7
    <3> HIDE DEF batch
    <3> QED BY <1>4, <3>1, DistinctEntries DEF TotalValue, ReceiptsOf
  <2>2. IsFiniteSet(old \cup new) /\ \A r \in old \cup new : r.value \in Nat
    BY <1>5, <1>6, <1>7, AggregatorAssumption, FS_Subset
  <2>3. (old \cup new) \ old = new /\ old \subseteq old \cup new
    BY <1>8
  <2> HIDE DEF old, new, batch
  <2>4. worth(old \cup new) = worth(old) + worth((old \cup new) \ old)
    BY <2>2, <2>3, WorthOfParts
  <2>5. worth(new) \in Nat
    BY <2>2, <2>3, WorthOfParts, new \subseteq old \cup new
  <2> QED BY <1>2, <1>6, <2>1, <2>3, <2>4, <2>5
<1>10. rav.timestamp_ns \in Nat
  <2>1. PICK r \in new : TRUE
    BY <1>2 DEF ReceiptsOf
  <2>2. r.timestamp_ns <= rav.timestamp_ns /\ rav.timestamp_ns \in Int
    BY <1>2, <1>5, <1>6, <1>7
  <2> QED BY <1>5, <1>7, <2>2
<1>11. \A r \in old \cup new : SameIds(r, first) /\ r.timestamp_ns <= rav.timestamp_ns
  <2>1. \A r \in new : r.timestamp_ns <= rav.timestamp_ns
    BY <1>2
  <2>2. \A r \in old : r.timestamp_ns <= rav.timestamp_ns
    <3>1. previous.timestamp_ns <= rav.timestamp_ns
      BY <1>2
    <3> QED BY <1>6, <1>7, <1>10, <3>1
  <2> QED BY <1>5, <1>6, <2>1, <2>2
<1>12. /\ answer.payer = first.payer /\ answer.stream = first.stream
       /\ answer.timestamp_ns = rav.timestamp_ns /\ answer.value = rav.value
       /\ answer.signer = SigningKey(first.payer) /\ answer.sources = old \cup new
  BY <1>1, <1>2 DEF SignedRav
<1>13. answer \in Rav
  BY <1>1, <1>2, <1>3, <1>5, <1>6, <1>10 DEF SignedRav, Rav
<1>14. Backed(answer)
  BY <1>9, <1>11, <1>12 DEF Backed, SameIds
<1> QED BY <1>2, <1>4, <1>8, <1>9, <1>12, <1>13, <1>14

-----------------------------------------------------------------------------
(* A step of the aggregator's is one of its registry, or leaves it alone.  *)
LEMMA RegistryRuns == Spec => RegistrySpec
<1>1. Init => RegistryInit
  BY DEF Init
<1>2. [Next]_vars => [RegistryNext]_registryVars
  BY DEF Next, Build, AggregateReceipts, Publish, vars, registryVars
<1> QED BY <1>1, <1>2, PTL DEF Spec, RegistrySpec

(* Every RAV is worth its receipts, and what is published is of a RAV.     *)
RavsAreBacked ==
    /\ ravs \subseteq Rav
    /\ \A rav \in ravs : Backed(rav)
    /\ gateway_ravs \subseteq {KafkaRecord(rav) : rav \in ravs}

(* A new RAV is worth its receipts because the one it is built on was, and *)
(* whatever is published is the record of a signed RAV.                    *)
LEMMA RavsStayBacked ==
    ASSUME RegistryTypeOK, RavsAreBacked, [Next]_vars
    PROVE  RavsAreBacked'
<1>1. CASE UNCHANGED <<ravs, gateway_ravs>>
  BY <1>1 DEF RavsAreBacked
<1>2. ASSUME NEW receipts \in Requests, NEW previous \in PreviousRavs,
             AggregateReceipts(receipts, previous)
      PROVE  RavsAreBacked'
  <2>1. PICK rav \in check_and_aggregate_receipts(receipts, previous) :
           ravs' = ravs \cup {rav}
    BY <1>2 DEF AggregateReceipts
  <2>2. previous = NoRav \/ (previous \in Rav /\ Backed(previous))
    <3>1. ravs \subseteq Rav /\ \A r \in ravs : Backed(r)
      BY DEF RavsAreBacked
    <3>2. previous = NoRav \/ previous \in ravs
      BY <1>2 DEF PreviousRavs
    <3> QED BY <3>1, <3>2
  <2>3. Accepts(receipts, previous)
    BY <2>1 DEF check_and_aggregate_receipts
  <2>4. rav \in Rav /\ Backed(rav)
    BY <2>1, <2>2, <2>3, AnswerIsBacked
  <2>5. gateway_ravs' = gateway_ravs
    BY <1>2 DEF AggregateReceipts
  <2> QED BY <2>1, <2>4, <2>5 DEF RavsAreBacked
<1>3. ASSUME NEW rav \in ravs, Publish(rav)
      PROVE  RavsAreBacked'
  BY <1>3 DEF Publish, RavsAreBacked
<1> QED BY <1>1, <1>2, <1>3 DEF Next, Build, vars

(* So every RAV an aggregator ever signs is backed.                        *)
LEMMA AlwaysBacked == Spec => [](RegistryTypeOK /\ RavsAreBacked)
<1>1. Init => RavsAreBacked
  BY EarlierAssumption DEF Init, RavsAreBacked
<1>2. RegistryTypeOK /\ RavsAreBacked /\ [Next]_vars => RavsAreBacked'
  BY RavsStayBacked
<1> QED BY <1>1, <1>2, RegistryRuns, RegistryTypeCorrect, PTL DEF Spec

(* The state keeps its shape.                                              *)
THEOREM TypeCorrect == Spec => []TypeOK
<1>1. RegistryTypeOK /\ RavsAreBacked => TypeOK
  <2> SUFFICES ASSUME RegistryTypeOK, RavsAreBacked PROVE TypeOK
    OBVIOUS
  <2>1. \A rav \in Rav : KafkaRecord(rav) \in [payer : Payers, value : Values,
                               stream : {r.stream : r \in Receipts}]
    BY DEF KafkaRecord, Rav
  <2> QED BY <2>1 DEF TypeOK, RavsAreBacked
<1> QED BY <1>1, AlwaysBacked, PTL

(* No RAV the aggregator signs, on whatever list of receipts and whatever  *)
(* previous RAV, is worth more or less than the distinct receipts behind   *)
(* it (check_and_aggregate_receipts).                                      *)
THEOREM NothingIsOverPromised == Spec => []NeverOverPromised
<1>1. RavsAreBacked => NeverOverPromised
  BY DEF RavsAreBacked, NeverOverPromised, Backed
<1> QED BY <1>1, AlwaysBacked, PTL

-----------------------------------------------------------------------------
(* When the registry is built, what a payer accepts is what is configured. *)
LEMMA BuiltAcceptsConfigured ==
    ASSUME RegistryMatchesConfig, KeyIsAccepted, status = "built",
           NEW p \in DOMAIN payers
    PROVE  /\ AcceptedSigners(p) = ConfiguredFor(p)
           /\ SigningKey(p) \in ConfiguredFor(p)
<1>1. AcceptedSigners(p) = ConfiguredFor(p)
  BY DEF RegistryMatchesConfig, ConfiguredFor
<1> QED BY <1>1 DEF KeyIsAccepted

(* A new RAV has receipts of configured signers, and those of the previous *)
(* RAV, which is of the same payer.                                        *)
LEMMA SignersStepVouches ==
    ASSUME RegistryTypeOK, RavsAreBacked, RegistryMatchesConfig, KeyIsAccepted,
           SignersVouchForTheirPayer, [Next]_vars
    PROVE  SignersVouchForTheirPayer'
<1>1. \A p : ConfiguredFor(p)' = ConfiguredFor(p)
  <2>1. UNCHANGED <<signing_keys, accepted>>
    BY DEF Next, Build, RegistryNext, ReadSigningKey, ReadAcceptedSigner, NoPayers,
           FinishBuild, Fail, AggregateReceipts, Publish, vars, registryVars
  <2> QED BY <2>1 DEF ConfiguredFor, Listed
<1>2. CASE UNCHANGED ravs
  BY <1>1, <1>2 DEF SignersVouchForTheirPayer
<1>3. ASSUME NEW receipts \in Requests, NEW previous \in PreviousRavs,
             AggregateReceipts(receipts, previous)
      PROVE  SignersVouchForTheirPayer'
  <2>1. PICK rav \in check_and_aggregate_receipts(receipts, previous) :
           ravs' = ravs \cup {rav}
    BY <1>3 DEF AggregateReceipts
  <2>2. Accepts(receipts, previous)
    BY <2>1 DEF check_and_aggregate_receipts
  <2> DEFINE p == receipts[1].payer
  <2>3. previous = NoRav \/ (previous \in Rav /\ Backed(previous))
    <3>1. ravs \subseteq Rav /\ \A r \in ravs : Backed(r)
      BY DEF RavsAreBacked
    <3>2. previous = NoRav \/ previous \in ravs
      BY <1>3 DEF PreviousRavs
    <3> QED BY <3>1, <3>2
  <2>4. /\ rav.payer = p
        /\ rav.signer = SigningKey(p)
        /\ rav.sources = previous.sources \cup {receipts[i] : i \in DOMAIN receipts}
    BY <2>1, <2>2, <2>3, AnswerIsBacked
  <2>5. /\ AcceptedSigners(p) = ConfiguredFor(p)
        /\ SigningKey(p) \in ConfiguredFor(p)
    BY <1>3, <2>2, BuiltAcceptsConfigured DEF AggregateReceipts, Accepts, Serves
  <2>6. \A i \in DOMAIN receipts : receipts[i].signer \in ConfiguredFor(p)
    BY <2>2, <2>5 DEF Accepts, check_signatures
  <2>7. \A r \in previous.sources \ EarlierSources : r.signer \in ConfiguredFor(p)
    <3>1. CASE previous = NoRav
      BY <3>1 DEF NoRav
    <3>2. CASE previous # NoRav /\ previous \in EarlierRavs
      BY <3>2 DEF EarlierSources
    <3>3. CASE previous # NoRav /\ previous \notin EarlierRavs
      <4>1. previous \in ravs \ EarlierRavs /\ previous.payer = p
        BY <1>3, <2>2, <3>3 DEF PreviousRavs, Accepts, check_previous_rav, SameIds
      <4> QED BY <4>1 DEF SignersVouchForTheirPayer
    <3> QED BY <3>1, <3>2, <3>3
  <2> HIDE DEF p
  <2>8. /\ rav.signer \in ConfiguredFor(rav.payer)
        /\ \A r \in rav.sources \ EarlierSources : r.signer \in ConfiguredFor(rav.payer)
    BY <2>4, <2>5, <2>6, <2>7
  <2> QED BY <1>1, <2>1, <2>8 DEF SignersVouchForTheirPayer
<1> QED BY <1>2, <1>3 DEF Next, Build, Publish, vars

(* A signer vouches for its own payer only, in the receipts of a request   *)
(* and through however many previous RAVs (aggregator.rs:44).              *)
THEOREM SignersVouch == Spec => []SignersVouchForTheirPayer
<1>1. Init => SignersVouchForTheirPayer
  BY DEF Init, SignersVouchForTheirPayer
<1>2. /\ RegistryTypeOK /\ RavsAreBacked /\ RegistryMatchesConfig /\ KeyIsAccepted
      /\ SignersVouchForTheirPayer /\ [Next]_vars
      => SignersVouchForTheirPayer'
  BY SignersStepVouches
<1> QED BY <1>1, <1>2, AlwaysBacked, RegistryRuns, RegistryIsTheConfig,
           KeysAreAccepted, PTL DEF Spec

-----------------------------------------------------------------------------
(* The largest record of a payer's stream is worth no more than the        *)
(* receipts of that stream.                                                *)
LEMMA LargestIsBacked ==
    ASSUME RavsAreBacked, NEW payer, NEW stream
    PROVE  /\ LargestRecord(payer, stream) \in Nat
           /\ LargestRecord(payer, stream)
                 <= MapThenSumSet(LAMBDA r : r.value,
                        {r \in Receipts : r.payer = payer /\ r.stream = stream})
<1> DEFINE records == {k \in gateway_ravs : k.payer = payer /\ k.stream = stream}
           values == {0} \cup {rec.value : rec \in records}
           owed == {r \in Receipts : r.payer = payer /\ r.stream = stream}
<1>1. IsFiniteSet(owed) /\ \A r \in owed : r.value \in Nat
  BY AggregatorAssumption, FS_Subset
<1>2. MapThenSumSet(LAMBDA r : r.value, owed) \in Nat
  <2> HIDE DEF owed
  <2> QED BY <1>1, WorthOfParts
<1>3. ASSUME NEW rec \in records
      PROVE  /\ rec.value \in Values
             /\ rec.value <= MapThenSumSet(LAMBDA r : r.value, owed)
  <2>1. PICK rav \in ravs : rec = KafkaRecord(rav)
    BY <1>3 DEF RavsAreBacked
  <2>2. rav \in Rav /\ Backed(rav)
    BY <2>1 DEF RavsAreBacked
  <2>3. rav.payer = payer /\ rav.stream = stream /\ rec.value = rav.value
    BY <1>3, <2>1 DEF KafkaRecord
  <2>4. rav.sources \subseteq owed
    BY <2>2, <2>3 DEF Rav, Backed, SameIds
  <2>5. MapThenSumSet(LAMBDA r : r.value, rav.sources)
           <= MapThenSumSet(LAMBDA r : r.value, owed)
    <3> HIDE DEF owed
    <3> QED BY <1>1, <2>4, WorthOfParts
  <2>6. rav.value = MapThenSumSet(LAMBDA r : r.value, rav.sources)
    BY <2>2 DEF Backed
  <2>7. rav.value \in Values
    BY <2>2 DEF Rav
  <2> QED BY <2>3, <2>5, <2>6, <2>7
<1>4. values \in SUBSET (0 .. MaxValue) /\ values # {}
  <2>1. 0 \in 0 .. MaxValue
    BY MaxValueAssumption
  <2>2. \A rec \in records : rec.value \in 0 .. MaxValue
    BY <1>3 DEF Values
  <2> HIDE DEF records
  <2> QED BY <2>1, <2>2
<1>5. Max(values) \in values
  <2> HIDE DEF values
  <2>1. (\A v \in values : v \in Int) /\ IsFiniteSet(values)
    <3>1. IsFiniteSet(0 .. MaxValue) /\ 0 .. MaxValue \subseteq Int
      BY MaxValueAssumption, FS_Interval
    <3> QED BY <1>4, <3>1, FS_Subset
  <2> QED BY <1>4, <2>1, MaxOfFinite
<1>6. Max(values) \in Nat /\ Max(values) <= MapThenSumSet(LAMBDA r : r.value, owed)
  <2> HIDE DEF owed
  <2> QED BY <1>2, <1>3, <1>4, <1>5, MaxValueAssumption
<1> QED BY <1>6 DEF LargestRecord

(* The sum of the largest records, as a sum of a function.                 *)
LEMMA LargestSum ==
    ASSUME NEW payer, NEW S, IsFiniteSet(S)
    PROVE  MapThenSumSet(LAMBDA s : LargestRecord(payer, s), S)
              = SumOver([s \in S |-> LargestRecord(payer, s)], S)
<1> DEFINE f == [s \in S |-> LargestRecord(payer, s)]
           sum == CHOOSE h : h = [U \in SUBSET S |->
                     IF U = {} THEN 0
                     ELSE LargestRecord(payer, Pick(U)) + h[U \ {Pick(U)}]]
<1>1. MapThenSumSet(LAMBDA s : LargestRecord(payer, s), S) = sum[S]
  BY DEF MapThenSumSet, MapThenFoldSet, Pick
<1>2. ASSUME NEW U \in SUBSET S, U # {}
      PROVE  f[Pick(U)] = LargestRecord(payer, Pick(U))
  BY <1>2 DEF Pick
<1>3. PICK g : Folds(g, f, SUBSET S)
  BY FoldExists
<1>4. g = [U \in SUBSET S |->
             IF U = {} THEN 0 ELSE LargestRecord(payer, Pick(U)) + g[U \ {Pick(U)}]]
  BY <1>2, <1>3 DEF Folds
<1>5. sum = [U \in SUBSET S |->
               IF U = {} THEN 0
               ELSE LargestRecord(payer, Pick(U)) + sum[U \ {Pick(U)}]]
  BY <1>4
<1>6. Folds(sum, f, SUBSET S)
  BY <1>2, <1>5 DEF Folds
<1> HIDE DEF sum, f
<1>7. SumOver(f, S) = sum[S]
  BY <1>6, SumIsFold
<1> QED BY <1>1, <1>7 DEF f

(* Stream by stream, and added up, so the debt of a payer is backed.       *)
LEMMA DebtIsBacked ==
    ASSUME RavsAreBacked
    PROVE  PublishedDebtIsBacked
<1> SUFFICES ASSUME NEW payer \in Payers
             PROVE  MapThenSumSet(LAMBDA s : LargestRecord(payer, s), StreamsOf(payer))
                       <= MapThenSumSet(LAMBDA r : r.value,
                                        {r \in Receipts : r.payer = payer})
  BY DEF PublishedDebtIsBacked
<1> DEFINE streams == StreamsOf(payer)
           mine == {r \in Receipts : r.payer = payer}
           value == [r \in Receipts |-> r.value]
           part == [s \in streams |-> {r \in Receipts : r.payer = payer /\ r.stream = s}]
           largest == [s \in streams |-> LargestRecord(payer, s)]
           worth == [s \in streams |-> SumOver(value, part[s])]
<1>1. /\ IsFiniteSet(mine)
      /\ \A s \in streams : IsFiniteSet(part[s]) /\ part[s] \subseteq Receipts
  BY AggregatorAssumption, FS_Subset
<1>2. IsFiniteSet(streams)
  <2> DEFINE stream == [r \in mine |-> r.stream]
  <2>1. streams = {stream[r] : r \in mine}
    BY DEF StreamsOf
  <2> HIDE DEF stream, mine
  <2> QED BY <1>1, <2>1, FiniteImage
<1>3. \A r \in Receipts : value[r] \in Nat
  BY AggregatorAssumption
<1>4. ASSUME NEW S, S \subseteq Receipts
      PROVE  SumOver(value, S) = MapThenSumSet(LAMBDA r : r.value, S)
  <2> DEFINE v == [r \in S |-> r.value]
  <2>1. IsFiniteSet(S)
    BY <1>4, AggregatorAssumption, FS_Subset
  <2>2. \A r \in S : value[r] = v[r]
    BY <1>4
  <2>3. MapThenSumSet(LAMBDA r : r.value, S) = SumOver(v, S)
    BY <2>1, ValueSum
  <2> HIDE DEF v, value
  <2> QED BY <2>1, <2>2, <2>3, SumAgree
<1>5. ASSUME NEW s \in streams
      PROVE  largest[s] \in Int /\ worth[s] \in Int /\ largest[s] <= worth[s]
  <2>1. SumOver(value, part[s]) = MapThenSumSet(LAMBDA r : r.value,
                        {r \in Receipts : r.payer = payer /\ r.stream = s})
    BY <1>4
  <2>2. SumOver(value, part[s]) \in Nat
    <3>1. IsFiniteSet(part[s]) /\ \A r \in part[s] : value[r] \in Nat
      BY <1>1, <1>3
    <3> HIDE DEF part, value
    <3> QED BY <3>1, SumNat
  <2>3. largest[s] = LargestRecord(payer, s) /\ worth[s] = SumOver(value, part[s])
    OBVIOUS
  <2> HIDE DEF largest, worth, value, part
  <2> QED BY <2>1, <2>2, <2>3, LargestIsBacked
<1>6. SumOver(largest, streams) <= SumOver(worth, streams)
  <2> HIDE DEF largest, worth, streams
  <2> QED BY <1>2, <1>5, SumMonotone
<1>7. SumOver(worth, streams) = SumOver(value, mine)
  <2>1. UNION {part[s] : s \in streams} = mine
    <3>1. ASSUME NEW r \in mine PROVE r.stream \in streams /\ r \in part[r.stream]
      BY <3>1 DEF StreamsOf
    <3>2. \A s \in streams : part[s] \subseteq mine
      OBVIOUS
    <3> HIDE DEF part, streams, mine
    <3> QED BY <3>1, <3>2
  <2>2. \A s, t \in streams : s # t => part[s] \cap part[t] = {}
    OBVIOUS
  <2>3. \A s \in streams : IsFiniteSet(part[s]) /\ \A r \in part[s] : value[r] \in Int
    BY <1>1, <1>3
  <2> HIDE DEF part, value, streams, mine
  <2> QED BY <1>2, <2>1, <2>2, <2>3, SumPartition DEF worth
<1>8. MapThenSumSet(LAMBDA s : LargestRecord(payer, s), streams) = SumOver(largest, streams)
  BY <1>2, LargestSum
<1>9. SumOver(value, mine) = MapThenSumSet(LAMBDA r : r.value, mine)
  BY <1>4
<1> QED BY <1>6, <1>7, <1>8, <1>9

(* What the escrow manager may read as a payer's debt, the sum over the    *)
(* streams of the largest record it has seen, is never more than the       *)
(* receipts of the payer are worth.                                        *)
THEOREM DebtIsAlwaysBacked == Spec => []PublishedDebtIsBacked
<1>1. RavsAreBacked => PublishedDebtIsBacked
  BY DebtIsBacked
<1> QED BY <1>1, AlwaysBacked, PTL
=============================================================================
