--------------------------- MODULE SignerRegistry ---------------------------
(***************************************************************************)
(* The aggregator's startup: SignerRegistry::build over the configured     *)
(* (payer, signing key) and (payer, accepted signer) pairs, one step for   *)
(* each pair.  A key is identified with its address.                       *)
(***************************************************************************)
EXTENDS Integers, Sequences, FiniteSets

CONSTANTS
    Payers,           \* payer addresses
    Signers,          \* signer addresses
    MaxSigningKeys,   \* bound: entries of GRAPH_TALLY_SIGNERS
    MaxAccepted       \* bound: entries of GRAPH_TALLY_ACCEPTED_SIGNERS

ASSUME RegistryAssumption == MaxSigningKeys \in Nat /\ MaxAccepted \in Nat

VARIABLES
    signing_keys,   \* configured (payer, signing key) pairs
    accepted,       \* configured (payer, accepted signer) pairs
    done,           \* how many pairs of both lists have been read
    payers,         \* payer -> its PayerKeys
    signer_payer,   \* signer address -> the payer it belongs to
    status          \* "building", "built", or "failed" (startup is refused)

registryVars == <<signing_keys, accepted, done, payers, signer_payer, status>>

Pair == [payer : Payers, signer : Signers]
ListsUpTo(n) == UNION {[1 .. k -> Pair] : k \in 0 .. n}

Nothing == [x \in {} |-> {}]

RegistryInit ==
    /\ signing_keys \in ListsUpTo(MaxSigningKeys)
    /\ accepted \in ListsUpTo(MaxAccepted)
    /\ done = 0
    /\ payers = Nothing
    /\ signer_payer = Nothing
    /\ status = "building"

(* Mutant of Insert: key and value are swapped.                            *)
InsertSwapped(map, key, value) ==
    [x \in DOMAIN map \cup {value} |-> IF x = value THEN key ELSE map[x]]

(* HashMap::insert                                                         *)
Insert(map, key, value) ==
    [x \in DOMAIN map \cup {key} |-> IF x = key THEN value ELSE map[x]]

Fail == /\ status' = "failed"
        /\ UNCHANGED <<signing_keys, accepted, done, payers, signer_payer>>

(* First loop.  Any second listing of a key is refused, for the same payer *)
(* too, and so is a second key for a payer.                                *)
KeyIsUnknown(pair) == pair.signer \notin DOMAIN signer_payer   \* mutant

KeyIsFree(pair) == /\ pair.signer \notin DOMAIN signer_payer
                   /\ pair.payer \notin DOMAIN payers

ReadSigningKey ==
    /\ status = "building"
    /\ done < Len(signing_keys)
    /\ LET pair == signing_keys[done + 1]
       IN \/ /\ KeyIsFree(pair)
             /\ signer_payer' = Insert(signer_payer, pair.signer, pair.payer)
             /\ payers' = Insert(payers, pair.payer,
                              [signing_key |-> pair.signer,
                               accepted_signers |-> {pair.signer}])
             /\ done' = done + 1
             /\ UNCHANGED <<signing_keys, accepted, status>>
          \/ ~KeyIsFree(pair) /\ Fail

(* Second loop.  A signer may be listed again for its own payer only.      *)
AnySignerIsFree(pair) == TRUE   \* mutant

SignerIsFree(pair) ==
    pair.signer \in DOMAIN signer_payer => signer_payer[pair.signer] = pair.payer

Accepted == accepted[done - Len(signing_keys) + 1]

ReadAcceptedSigner ==
    /\ status = "building"
    /\ done >= Len(signing_keys)
    /\ DOMAIN payers # {}
    /\ done < Len(signing_keys) + Len(accepted)
    /\ LET pair == Accepted
       IN \/ /\ pair.payer \in DOMAIN payers /\ SignerIsFree(pair)
             /\ signer_payer' = Insert(signer_payer, pair.signer, pair.payer)
             /\ payers' = [payers EXCEPT ![pair.payer].accepted_signers =
                                             @ \cup {pair.signer}]
             /\ done' = done + 1
             /\ UNCHANGED <<signing_keys, accepted, status>>
          \/ ~(pair.payer \in DOMAIN payers /\ SignerIsFree(pair)) /\ Fail

NoPayers == /\ status = "building"
            /\ done >= Len(signing_keys)
            /\ DOMAIN payers = {}
            /\ Fail

FinishBuild ==
    /\ status = "building"
    /\ done = Len(signing_keys) + Len(accepted)
    /\ DOMAIN payers # {}
    /\ status' = "built"
    /\ UNCHANGED <<signing_keys, accepted, done, payers, signer_payer>>

RegistryNext == ReadSigningKey \/ ReadAcceptedSigner \/ NoPayers \/ FinishBuild

RegistrySpec == RegistryInit /\ [][RegistryNext]_registryVars

-----------------------------------------------------------------------------
(* resolve                                                                 *)
Serves(payer) == payer \in DOMAIN payers
SigningKey(payer) == payers[payer].signing_key
AcceptedSigners(payer) == payers[payer].accepted_signers

(* The shape of the state.                                                 *)
RegistryTypeOK ==
    /\ signing_keys \in ListsUpTo(MaxSigningKeys)
    /\ accepted \in ListsUpTo(MaxAccepted)
    /\ done \in 0 .. Len(signing_keys) + Len(accepted)
    /\ DOMAIN payers \subseteq Payers
    /\ \A p \in DOMAIN payers :
          payers[p] \in [signing_key : Signers, accepted_signers : SUBSET Signers]
    /\ DOMAIN signer_payer \subseteq Signers
    /\ \A s \in DOMAIN signer_payer : signer_payer[s] \in Payers
    /\ status \in {"building", "built", "failed"}

(* "A signer is bound to exactly one authorizer on chain, so an address    *)
(* may appear under one payer only, whichever way it arrives"              *)
(* (signers.rs:42): as a signing key, as an accepted signer, or as both.   *)
OnePayerPerSigner ==
    \A p, q \in DOMAIN payers :
        p # q => AcceptedSigners(p) \cap AcceptedSigners(q) = {}

(* Every signer a payer accepts is recorded as that payer's: the invariant *)
(* behind OnePayerPerSigner.                                               *)
AcceptedAreRecorded ==
    \A p \in DOMAIN payers : \A s \in AcceptedSigners(p) :
        s \in DOMAIN signer_payer /\ signer_payer[s] = p

Listed(pairs) == {pairs[i] : i \in DOMAIN pairs}
Consistent ==
    LET all == Listed(signing_keys) \cup Listed(accepted)
    IN /\ signing_keys # << >>
       /\ \A i, j \in DOMAIN signing_keys :
             i # j => signing_keys[i].payer # signing_keys[j].payer
       /\ \A a, b \in all : a.signer = b.signer => a.payer = b.payer
       /\ \A a \in all : \E k \in Listed(signing_keys) : k.payer = a.payer

(* Startup succeeds on exactly the configurations an operator would call   *)
(* consistent, in whichever order the entries are listed: one key for each *)
(* payer, one payer for each signer, no accepted signer without its payer. *)
(* And then a payer accepts its own key and what was listed for it, and no *)
(* more.                                                                   *)
RegistryMatchesConfig ==
    /\ status = "failed" => ~Consistent
    /\ status = "built" =>
          /\ Consistent
          /\ DOMAIN payers = {k.payer : k \in Listed(signing_keys)}
          /\ \A p \in DOMAIN payers :
                AcceptedSigners(p) =
                    {a.signer : a \in {b \in Listed(signing_keys) \cup
                                             Listed(accepted) : b.payer = p}}
=============================================================================
