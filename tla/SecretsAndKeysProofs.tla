------------------------- MODULE SecretsAndKeysProofs -------------------------
(***************************************************************************)
(* What Secret Manager and Cloud KMS answered stays usable: proved for     *)
(* every set of clients, secrets, rings, keys, payloads and algorithms and *)
(* for any number of versions, with handlers that act on stale looks.      *)
(***************************************************************************)
EXTENDS SecretsAndKeys, TLAPS

(* The inductive invariant.                                                 *)

SecretVersions == [payload : Payloads \cup {NoPayload}, state : {"ENABLED", "DISABLED", "DESTROYED"}]
KeyVersions == [algorithm : Algorithms, material : Nat \ {NoMaterial}]

IsSecret(s) ==
  /\ s \in [labels : Labels, versions : Seq(SecretVersions)]
  /\ Len(s.versions) <= MaxVersions

\* A key has a primary version as soon as it has any.
IsKey(k) ==
  /\ k \in [algorithm : Algorithms, primary : Nat, versions : Seq(KeyVersions)]
  /\ k.primary \in 0..Len(k.versions)
  /\ k.primary = 0 => k.versions = <<>>

\* What a create handler carries from its look to its last call.
IsRequest(r) ==
  /\ r.what = "secret"  => r.name \in Secrets /\ r.labels \in Labels
  /\ r.what = "ring"    => r.name \in Rings
  /\ r.what = "key"     => r.name \in Keys /\ IsKey(r.key)
  /\ r.what = "version" => r.name \in Keys /\ r.version \in KeyVersions

Types ==
  /\ DOMAIN secrets \subseteq Secrets /\ \A s \in DOMAIN secrets : IsSecret(secrets[s])
  /\ rings \subseteq Rings
  /\ DOMAIN keys \subseteq Keys /\ \A k \in DOMAIN keys : IsKey(keys[k]) /\ k[1] \in rings
  /\ creating = [c \in Clients |-> creating[c]]
  /\ \A c \in Clients : creating[c] # Nothing => IsRequest(creating[c])
  /\ lastMaterial \in Nat

\* Every acknowledged version is there, with its payload unless destroyed ...
AddedAreThere ==
  \A a \in added :
    /\ a = [secret |-> a.secret, number |-> a.number, payload |-> a.payload, destroyed |-> a.destroyed]
    /\ a.secret \in DOMAIN secrets /\ a.number \in DOMAIN secrets[a.secret].versions
    /\ secrets[a.secret].versions[a.number].payload = IF a.destroyed THEN NoPayload ELSE a.payload

\* ... and every payload that is there was acknowledged.
PayloadsWereAdded ==
  \A s \in DOMAIN secrets : \A n \in DOMAIN secrets[s].versions :
    \/ secrets[s].versions[n].payload = NoPayload
    \/ \E a \in added : a.secret = s /\ a.payload = secrets[s].versions[n].payload

\* The version behind every ciphertext and signature is there, and a
\* ciphertext's is primary.
IssuedAreThere ==
  \A i \in issued :
    LET number == IF i.version = 0 THEN keys[i.key].primary ELSE i.version IN
    /\ i.key \in DOMAIN keys
    /\ number \in DOMAIN keys[i.key].versions
    /\ keys[i.key].versions[number].material = i.material

IInv == Types /\ AddedAreThere /\ PayloadsWereAdded /\ IssuedAreThere

-----------------------------------------------------------------------------
LEMMA InitInv == Init => IInv
BY DEF Init, IInv, Types, AddedAreThere, PayloadsWereAdded, IssuedAreThere, Empty

-----------------------------------------------------------------------------
(* One lemma per action.                                                    *)

LEMMA LookForSecretInv ==
  ASSUME NEW c \in Clients, NEW s \in Secrets, NEW labels \in Labels, IInv, LookForSecret(c, s, labels)
  PROVE  IInv'
<1> USE DEF LookForSecret, Wait, secretVars, keyVars
<1>1. Types'
  BY ConstantAssumptions DEF IInv, Types, IsRequest, IsSecret, IsKey, SecretVersions, KeyVersions, NoMaterial
<1>2. AddedAreThere'
  BY DEF IInv, Types, AddedAreThere, IsSecret
<1>3. PayloadsWereAdded'
  BY DEF IInv, Types, AddedAreThere, PayloadsWereAdded, IsSecret
<1>4. IssuedAreThere'
  BY DEF IInv, Types, IssuedAreThere, IsKey
<1> QED
  BY <1>1, <1>2, <1>3, <1>4 DEF IInv

LEMMA CreateSecretInv ==
  ASSUME NEW c \in Clients, IInv, CreateSecret(c)
  PROVE  IInv'
<1> USE DEF CreateSecret, Answer, Pending, keyVars, Bind
<1>1. Types'
  <2>1. creating[c].name \in Secrets /\ creating[c].labels \in Labels
    BY DEF IInv, Types, IsRequest
  <2>2. IsSecret([labels |-> creating[c].labels, versions |-> <<>>])
    BY <2>1, ConstantAssumptions DEF IsSecret
  <2>3. \A s \in DOMAIN secrets' : s \in Secrets /\ IsSecret(secrets'[s])
    BY <2>1, <2>2 DEF IInv, Types
  <2> QED
    BY <2>3 DEF IInv, Types
<1>2. AddedAreThere'
  BY DEF IInv, Types, AddedAreThere, IsSecret
<1>3. PayloadsWereAdded'
  <2>1. added' = added
    OBVIOUS
  <2>2. ASSUME NEW z \in DOMAIN secrets', NEW i \in DOMAIN secrets'[z].versions
        PROVE  z \in DOMAIN secrets /\ secrets'[z] = secrets[z]
    OBVIOUS
  <2> HIDE DEF CreateSecret
  <2> QED
    BY <2>1, <2>2 DEF IInv, PayloadsWereAdded
<1>4. IssuedAreThere'
  BY DEF IInv, Types, IssuedAreThere, IsKey
<1> QED
  BY <1>1, <1>2, <1>3, <1>4 DEF IInv

LEMMA UpdateSecretLabelsInv ==
  ASSUME NEW s \in Secrets, NEW labels \in Labels, IInv, UpdateSecretLabels(s, labels)
  PROVE  IInv'
<1> USE DEF UpdateSecretLabels, keyVars
<1>1. Types'
  BY ConstantAssumptions DEF IInv, Types, IsRequest, IsSecret, IsKey, SecretVersions, KeyVersions, NoMaterial
<1>2. AddedAreThere'
  BY DEF IInv, Types, AddedAreThere, IsSecret
<1>3. PayloadsWereAdded'
  BY DEF IInv, Types, AddedAreThere, PayloadsWereAdded, IsSecret
<1>4. IssuedAreThere'
  BY DEF IInv, Types, IssuedAreThere, IsKey
<1> QED
  BY <1>1, <1>2, <1>3, <1>4 DEF IInv

LEMMA DeleteSecretInv ==
  ASSUME NEW s \in Secrets, IInv, DeleteSecret(s)
  PROVE  IInv'
<1> USE DEF DeleteSecret, keyVars, Without
<1>1. Types'
  BY ConstantAssumptions DEF IInv, Types, IsRequest, IsSecret, IsKey, SecretVersions, KeyVersions, NoMaterial
<1>2. AddedAreThere'
  BY DEF IInv, Types, AddedAreThere, IsSecret
<1>3. PayloadsWereAdded'
  BY DEF IInv, Types, AddedAreThere, PayloadsWereAdded, IsSecret
<1>4. IssuedAreThere'
  BY DEF IInv, Types, IssuedAreThere, IsKey
<1> QED
  BY <1>1, <1>2, <1>3, <1>4 DEF IInv

LEMMA AddSecretVersionInv ==
  ASSUME NEW s \in Secrets, NEW payload \in Payloads, IInv, AddSecretVersion(s, payload)
  PROVE  IInv'
<1> USE DEF AddSecretVersion, keyVars
<1>1. Types'
  <2> DEFINE v == [payload |-> payload, state |-> "ENABLED"]
  <2>1. v \in SecretVersions
    BY DEF SecretVersions
  <2>2. secrets[s].versions \in Seq(SecretVersions) /\ secrets[s].labels \in Labels
    BY DEF IInv, Types, IsSecret
  <2>3. /\ Append(secrets[s].versions, v) \in Seq(SecretVersions)
        /\ Len(Append(secrets[s].versions, v)) = Len(secrets[s].versions) + 1
    BY <2>1, <2>2
  <2>4. secrets'[s] = [labels |-> secrets[s].labels, versions |-> Append(secrets[s].versions, v)]
    BY DEF IInv, Types, IsSecret
  <2>5. Len(secrets[s].versions) < MaxVersions /\ Len(secrets[s].versions) \in Nat
    BY <2>2
  <2> HIDE DEF v, AddSecretVersion
  <2>6. IsSecret(secrets'[s])
    <3> DEFINE w == Append(secrets[s].versions, v)
    <3>1. secrets'[s] = [labels |-> secrets[s].labels, versions |-> w] /\ w \in Seq(SecretVersions)
      BY <2>3, <2>4
    <3>2. Len(w) <= MaxVersions
      BY <2>3, <2>5, ConstantAssumptions
    <3> HIDE DEF w
    <3> QED
      BY <2>2, <3>1, <3>2 DEF IsSecret
  <2> QED
    BY <2>6 DEF IInv, Types, AddSecretVersion
<1>2. AddedAreThere'
  BY DEF IInv, Types, AddedAreThere, IsSecret
<1>3. PayloadsWereAdded'
  <2> SUFFICES ASSUME NEW z \in DOMAIN secrets', NEW i \in DOMAIN secrets'[z].versions
               PROVE  \/ secrets'[z].versions[i].payload = NoPayload
                      \/ \E a \in added' : a.secret = z /\ a.payload = secrets'[z].versions[i].payload
    BY DEF PayloadsWereAdded
  <2>1. z \in DOMAIN secrets /\ secrets[s].versions \in Seq(SecretVersions)
    BY DEF IInv, Types, IsSecret
  <2>2. CASE z = s /\ i = Len(secrets[s].versions) + 1
    <3> DEFINE v == [payload |-> payload, state |-> "ENABLED"]
               a == [secret |-> s, number |-> Len(secrets[s].versions) + 1, payload |-> payload, destroyed |-> FALSE]
    <3>1. secrets'[s].versions = Append(secrets[s].versions, v)
      BY DEF IInv, Types, IsSecret
    <3>2. Append(secrets[s].versions, v)[Len(secrets[s].versions) + 1] = v
      BY <2>1
    <3>3. secrets'[z].versions[i] = v
      BY <2>2, <3>1, <3>2
    <3>4. a \in added' /\ a.secret = z /\ a.payload = v.payload
      BY <2>2
    <3> HIDE DEF a, v, AddSecretVersion
    <3> QED
      BY <3>3, <3>4
  <2>3. CASE ~(z = s /\ i = Len(secrets[s].versions) + 1)
    <3>1. i \in DOMAIN secrets[z].versions /\ secrets'[z].versions[i] = secrets[z].versions[i]
      BY <2>1, <2>3 DEF IInv, Types, IsSecret
    <3> QED
      BY <2>1, <3>1 DEF IInv, PayloadsWereAdded
  <2> QED
    BY <2>2, <2>3
<1>4. IssuedAreThere'
  BY DEF IInv, Types, IssuedAreThere, IsKey
<1> QED
  BY <1>1, <1>2, <1>3, <1>4 DEF IInv

LEMMA SetSecretVersionStateInv ==
  ASSUME NEW s \in Secrets, NEW n \in 1..MaxVersions, NEW state \in {"ENABLED", "DISABLED", "DESTROYED"}, IInv, SetSecretVersionState(s, n, state)
  PROVE  IInv'
<1> USE DEF SetSecretVersionState, keyVars, NewState, Destroyed
<1>1. Types'
  <2>1. secrets[s].versions \in Seq(SecretVersions) /\ secrets[s].labels \in Labels
    BY DEF IInv, Types, IsSecret
  <2>2. NewState(secrets[s].versions[n], state) \in SecretVersions
    <3>1. secrets[s].versions[n] \in SecretVersions
      BY <2>1
    <3> QED
      BY <3>1 DEF SecretVersions
  <2> DEFINE vs == [secrets[s].versions EXCEPT ![n] = NewState(secrets[s].versions[n], state)]
  <2>3. vs \in Seq(SecretVersions) /\ Len(vs) = Len(secrets[s].versions)
    BY <2>1, <2>2
  <2>4. secrets'[s] = [labels |-> secrets[s].labels, versions |-> vs]
    BY DEF IInv, Types, IsSecret
  <2>5. IsSecret(secrets'[s])
    BY <2>1, <2>3, <2>4 DEF IInv, Types, IsSecret
  <2> QED
    BY <2>5 DEF IInv, Types
<1>2. AddedAreThere'
  BY DEF IInv, Types, AddedAreThere, IsSecret
<1>3. PayloadsWereAdded'
  <2> SUFFICES ASSUME NEW z \in DOMAIN secrets', NEW i \in DOMAIN secrets'[z].versions
               PROVE  \/ secrets'[z].versions[i].payload = NoPayload
                      \/ \E a \in added' : a.secret = z /\ a.payload = secrets'[z].versions[i].payload
    BY DEF PayloadsWereAdded
  <2>1. z \in DOMAIN secrets /\ i \in DOMAIN secrets[z].versions
    BY DEF IInv, Types, IsSecret
  <2>2. secrets'[z].versions[i].payload \in {NoPayload, secrets[z].versions[i].payload}
    BY <2>1 DEF IInv, Types, IsSecret, SecretVersions
  <2>3. ASSUME NEW a \in added
        PROVE  \E b \in added' : b.secret = a.secret /\ b.payload = a.payload
    <3>1. a = [secret |-> a.secret, number |-> a.number, payload |-> a.payload, destroyed |-> a.destroyed]
      BY DEF IInv, AddedAreThere
    <3>2. Destroyed(a, s, n).secret = a.secret /\ Destroyed(a, s, n).payload = a.payload
      BY <3>1
    <3>3. a \in added' \/ Destroyed(a, s, n) \in added'
      OBVIOUS
    <3> HIDE DEF Destroyed, SetSecretVersionState
    <3> QED
      BY <3>2, <3>3
  <2> HIDE DEF SetSecretVersionState
  <2> QED
    BY <2>1, <2>2, <2>3 DEF IInv, PayloadsWereAdded
<1>4. IssuedAreThere'
  BY DEF IInv, Types, IssuedAreThere, IsKey
<1> QED
  BY <1>1, <1>2, <1>3, <1>4 DEF IInv

LEMMA LookForKeyRingInv ==
  ASSUME NEW c \in Clients, NEW r \in Rings, IInv, LookForKeyRing(c, r)
  PROVE  IInv'
<1> USE DEF LookForKeyRing, Wait, secretVars, keyVars
<1>1. Types'
  BY ConstantAssumptions DEF IInv, Types, IsRequest, IsSecret, IsKey, SecretVersions, KeyVersions, NoMaterial
<1>2. AddedAreThere'
  BY DEF IInv, Types, AddedAreThere, IsSecret
<1>3. PayloadsWereAdded'
  BY DEF IInv, Types, AddedAreThere, PayloadsWereAdded, IsSecret
<1>4. IssuedAreThere'
  BY DEF IInv, Types, IssuedAreThere, IsKey
<1> QED
  BY <1>1, <1>2, <1>3, <1>4 DEF IInv

LEMMA CreateKMSKeyRingInv ==
  ASSUME NEW c \in Clients, IInv, CreateKMSKeyRing(c)
  PROVE  IInv'
<1> USE DEF CreateKMSKeyRing, Answer, Pending, secretVars
<1>1. Types'
  BY ConstantAssumptions DEF IInv, Types, IsRequest, IsSecret, IsKey, SecretVersions, KeyVersions, NoMaterial
<1>2. AddedAreThere'
  BY DEF IInv, Types, AddedAreThere, IsSecret
<1>3. PayloadsWereAdded'
  BY DEF IInv, Types, AddedAreThere, PayloadsWereAdded, IsSecret
<1>4. IssuedAreThere'
  BY DEF IInv, Types, IssuedAreThere, IsKey
<1> QED
  BY <1>1, <1>2, <1>3, <1>4 DEF IInv

LEMMA LookForCryptoKeyInv ==
  ASSUME NEW c \in Clients, NEW k \in Keys, NEW a \in Algorithms, NEW skip \in BOOLEAN, IInv, LookForCryptoKey(c, k, a, skip)
  PROVE  IInv'
<1> USE DEF LookForCryptoKey, Wait, secretVars, keyVars
<1>1. Types'
  <2>1. lastMaterial + 1 \in Nat \ {NoMaterial} /\ lastMaterial' \in Nat
    BY DEF IInv, Types, NoMaterial
  <2> DEFINE v == [algorithm |-> a, material |-> lastMaterial + 1]
             new == [algorithm |-> a, primary |-> IF skip THEN 0 ELSE 1,
                     versions |-> IF skip THEN <<>> ELSE <<v>>]
  <2>2. v \in KeyVersions
    BY <2>1 DEF KeyVersions
  <2>3. IsKey(new)
    BY <2>2 DEF IsKey
  <2>4. IsRequest([what |-> "key", name |-> k, key |-> new])
    BY <2>3 DEF IsRequest
  <2>5. creating' = [creating EXCEPT ![c] = [what |-> "key", name |-> k, key |-> new]]
    OBVIOUS
  <2> HIDE DEF new
  <2> QED
    BY <2>1, <2>4, <2>5 DEF IInv, Types
<1>2. AddedAreThere'
  BY DEF IInv, Types, AddedAreThere, IsSecret
<1>3. PayloadsWereAdded'
  BY DEF IInv, Types, AddedAreThere, PayloadsWereAdded, IsSecret
<1>4. IssuedAreThere'
  BY DEF IInv, Types, IssuedAreThere, IsKey
<1> QED
  BY <1>1, <1>2, <1>3, <1>4 DEF IInv

LEMMA CreateKMSCryptoKeyInv ==
  ASSUME NEW c \in Clients, IInv, CreateKMSCryptoKey(c)
  PROVE  IInv'
<1> USE DEF CreateKMSCryptoKey, Answer, Pending, secretVars, Bind
<1>1. Types'
  BY ConstantAssumptions DEF IInv, Types, IsRequest, IsSecret, IsKey, SecretVersions, KeyVersions, NoMaterial
<1>2. AddedAreThere'
  BY DEF IInv, Types, AddedAreThere, IsSecret
<1>3. PayloadsWereAdded'
  BY DEF IInv, Types, AddedAreThere, PayloadsWereAdded, IsSecret
<1>4. IssuedAreThere'
  BY DEF IInv, Types, IssuedAreThere, IsKey
<1> QED
  BY <1>1, <1>2, <1>3, <1>4 DEF IInv

LEMMA LookForAlgorithmInv ==
  ASSUME NEW c \in Clients, NEW k \in Keys, NEW a \in Algorithms, IInv, LookForAlgorithm(c, k, a)
  PROVE  IInv'
<1> USE DEF LookForAlgorithm, Wait, secretVars, keyVars
<1>1. Types'
  <2>1. lastMaterial + 1 \in Nat \ {NoMaterial} /\ lastMaterial' \in Nat
    BY DEF IInv, Types, NoMaterial
  <2> DEFINE v == [algorithm |-> a, material |-> lastMaterial + 1]
  <2>2. v \in KeyVersions
    BY <2>1 DEF KeyVersions
  <2>3. IsRequest([what |-> "version", name |-> k, version |-> v])
    BY <2>2 DEF IsRequest
  <2>4. creating' = [creating EXCEPT ![c] = [what |-> "version", name |-> k, version |-> v]]
    OBVIOUS
  <2> HIDE DEF v
  <2> QED
    BY <2>1, <2>3, <2>4 DEF IInv, Types
<1>2. AddedAreThere'
  BY DEF IInv, Types, AddedAreThere, IsSecret
<1>3. PayloadsWereAdded'
  BY DEF IInv, Types, AddedAreThere, PayloadsWereAdded, IsSecret
<1>4. IssuedAreThere'
  BY DEF IInv, Types, IssuedAreThere, IsKey
<1> QED
  BY <1>1, <1>2, <1>3, <1>4 DEF IInv

LEMMA AddKMSKeyVersionInv ==
  ASSUME NEW c \in Clients, IInv, AddKMSKeyVersion(c)
  PROVE  IInv'
<1> USE DEF AddKMSKeyVersion, Answer, Pending, secretVars, PrimaryAfter
<1>1. Types'
  <2> DEFINE k == creating[c].name
             vs == Append(keys[k].versions, creating[c].version)
             new == [algorithm |-> keys[k].algorithm, primary |-> PrimaryAfter(keys[k]), versions |-> vs]
  <2>1. k \in DOMAIN keys /\ k \in Keys /\ creating[c].version \in KeyVersions
    BY DEF IInv, Types, IsRequest
  <2>2. IsKey(keys[k])
    BY <2>1 DEF IInv, Types
  <2>3. /\ keys[k].versions \in Seq(KeyVersions) /\ vs \in Seq(KeyVersions)
        /\ Len(keys[k].versions) \in Nat /\ Len(vs) = Len(keys[k].versions) + 1
    BY <2>1, <2>2 DEF IsKey
  <2>4. keys' = [keys EXCEPT ![k] = new]
    OBVIOUS
  <2> HIDE DEF vs
  <2>5. IsKey(new)
    BY <2>2, <2>3 DEF IsKey
  <2> HIDE DEF new, k
  <2> QED
    BY <2>1, <2>4, <2>5 DEF IInv, Types
<1>2. AddedAreThere'
  BY DEF IInv, Types, AddedAreThere, IsSecret
<1>3. PayloadsWereAdded'
  BY DEF IInv, Types, AddedAreThere, PayloadsWereAdded, IsSecret
<1>4. IssuedAreThere'
  <2> DEFINE k == creating[c].name
  <2>1. k \in DOMAIN keys /\ IsKey(keys[k])
    BY DEF IInv, Types
  <2>2. /\ DOMAIN keys' = DOMAIN keys
        /\ \A x \in DOMAIN keys : x # k => keys'[x] = keys[x]
    OBVIOUS
  <2>3. /\ DOMAIN keys[k].versions \subseteq DOMAIN keys'[k].versions
        /\ \A n \in DOMAIN keys[k].versions : keys'[k].versions[n] = keys[k].versions[n]
        /\ keys[k].primary \in DOMAIN keys[k].versions => keys'[k].primary = keys[k].primary
    <3> DEFINE vs == Append(keys[k].versions, creating[c].version)
    <3>1. /\ keys[k].versions \in Seq(KeyVersions) /\ creating[c].version \in KeyVersions
          /\ keys[k].primary \in Nat
      BY <2>1 DEF IInv, Types, IsRequest, IsKey
    <3>2. /\ DOMAIN keys[k].versions \subseteq DOMAIN vs
          /\ \A n \in DOMAIN keys[k].versions : vs[n] = keys[k].versions[n]
      BY <3>1
    <3>3. keys'[k].versions = vs /\ keys'[k].primary = PrimaryAfter(keys[k])
      BY <2>1
    <3>4. keys[k].primary \in DOMAIN keys[k].versions => keys[k].primary # 0
      BY <3>1
    <3> HIDE DEF vs, k, AddKMSKeyVersion
    <3> QED
      BY <3>2, <3>3, <3>4
  <2> HIDE DEF k, AddKMSKeyVersion
  <2> SUFFICES ASSUME NEW i \in issued
               PROVE  LET number == IF i.version = 0 THEN keys'[i.key].primary ELSE i.version IN
                      /\ i.key \in DOMAIN keys'
                      /\ number \in DOMAIN keys'[i.key].versions
                      /\ keys'[i.key].versions[number].material = i.material
    BY DEF IssuedAreThere, AddKMSKeyVersion
  <2> QED
    BY <2>1, <2>2, <2>3 DEF IInv, IssuedAreThere
<1> QED
  BY <1>1, <1>2, <1>3, <1>4 DEF IInv

LEMMA CreateFailsInv ==
  ASSUME NEW c \in Clients, IInv, CreateFails(c)
  PROVE  IInv'
<1> USE DEF CreateFails, Answer, secretVars, keyVars
<1>1. Types'
  BY ConstantAssumptions DEF IInv, Types, IsRequest, IsSecret, IsKey, SecretVersions, KeyVersions, NoMaterial
<1>2. AddedAreThere'
  BY DEF IInv, Types, AddedAreThere, IsSecret
<1>3. PayloadsWereAdded'
  BY DEF IInv, Types, AddedAreThere, PayloadsWereAdded, IsSecret
<1>4. IssuedAreThere'
  BY DEF IInv, Types, IssuedAreThere, IsKey
<1> QED
  BY <1>1, <1>2, <1>3, <1>4 DEF IInv

LEMMA EncryptInv ==
  ASSUME NEW k \in Keys, IInv, Encrypt(k)
  PROVE  IInv'
<1> USE DEF Encrypt, secretVars, KMSKeyVersion, NoMaterial
<1>1. Types'
  BY ConstantAssumptions DEF IInv, Types, IsRequest, IsSecret, IsKey, SecretVersions, KeyVersions, NoMaterial
<1>2. AddedAreThere'
  BY DEF IInv, Types, AddedAreThere, IsSecret
<1>3. PayloadsWereAdded'
  BY DEF IInv, Types, AddedAreThere, PayloadsWereAdded, IsSecret
<1>4. IssuedAreThere'
  BY DEF IInv, Types, IssuedAreThere, IsKey
<1> QED
  BY <1>1, <1>2, <1>3, <1>4 DEF IInv

LEMMA AsymmetricSignInv ==
  ASSUME NEW k \in Keys, NEW n \in 1..MaxVersions, IInv, AsymmetricSign(k, n)
  PROVE  IInv'
<1> USE DEF AsymmetricSign, secretVars, KMSKeyVersion, NoMaterial
<1>1. Types'
  BY ConstantAssumptions DEF IInv, Types, IsRequest, IsSecret, IsKey, SecretVersions, KeyVersions, NoMaterial
<1>2. AddedAreThere'
  BY DEF IInv, Types, AddedAreThere, IsSecret
<1>3. PayloadsWereAdded'
  BY DEF IInv, Types, AddedAreThere, PayloadsWereAdded, IsSecret
<1>4. IssuedAreThere'
  BY DEF IInv, Types, IssuedAreThere, IsKey
<1> QED
  BY <1>1, <1>2, <1>3, <1>4 DEF IInv

LEMMA ResetInv ==
  ASSUME IInv, Reset
  PROVE  IInv'
<1> USE DEF Reset, Empty
<1>1. Types'
  BY ConstantAssumptions DEF IInv, Types, IsRequest, IsSecret, IsKey, SecretVersions, KeyVersions, NoMaterial
<1>2. AddedAreThere'
  BY DEF IInv, Types, AddedAreThere, IsSecret
<1>3. PayloadsWereAdded'
  BY DEF IInv, Types, AddedAreThere, PayloadsWereAdded, IsSecret
<1>4. IssuedAreThere'
  BY DEF IInv, Types, IssuedAreThere, IsKey
<1> QED
  BY <1>1, <1>2, <1>3, <1>4 DEF IInv

-----------------------------------------------------------------------------
LEMMA StepInv == IInv /\ [Next]_vars => IInv'
<1> SUFFICES ASSUME IInv, [Next]_vars PROVE IInv'
  OBVIOUS
<1>1. CASE secretManager
  BY <1>1, LookForSecretInv, CreateSecretInv, UpdateSecretLabelsInv, DeleteSecretInv,
     AddSecretVersionInv, SetSecretVersionStateInv DEF secretManager
<1>2. CASE kms
  BY <1>2, LookForKeyRingInv, CreateKMSKeyRingInv, LookForCryptoKeyInv, CreateKMSCryptoKeyInv,
     LookForAlgorithmInv, AddKMSKeyVersionInv, CreateFailsInv, EncryptInv, AsymmetricSignInv DEF kms
<1>3. CASE UNCHANGED vars
  BY <1>3 DEF IInv, vars, Types, AddedAreThere, PayloadsWereAdded, IssuedAreThere
<1> QED
  BY <1>1, <1>2, <1>3, ResetInv DEF Next

LEMMA Invariance == Spec => []IInv
BY InitInv, StepInv, PTL DEF Spec

-----------------------------------------------------------------------------
(* The theorems.                                                            *)

\* Keys have a ring, and a primary version as soon as they have any version,
\* although a handler may create a key whose ring it looked for long ago.
THEOREM TypeCorrect == Spec => []TypeOK
<1>1. IInv => TypeOK
  BY DEF IInv, Types, IsSecret, IsKey, TypeOK
<1> QED
  BY <1>1, Invariance, PTL

\* No rotation and no racing creation takes away the material of a ciphertext
\* or a signature: what Encrypt returned can be decrypted by naming its key.
THEOREM MaterialStays == Spec => []MaterialKept
<1>1. IInv => MaterialKept
  BY DEF IInv, IssuedAreThere, MaterialKept, Decrypt, GetPublicKey, KMSKeyVersion
<1> QED
  BY <1>1, Invariance, PTL

\* An acknowledged secret version keeps its number and its payload until it is
\* destroyed or its secret deleted, and "latest" never answers with a payload
\* nobody added to the secret.
THEOREM PayloadsStay == Spec => []PayloadsKept
<1>1. IInv => PayloadsKept
  <2> SUFFICES ASSUME IInv PROVE PayloadsKept
    OBVIOUS
  <2>1. ASSUME NEW a \in added
        PROVE  SecretVersion(a.secret, a.number).payload = IF a.destroyed THEN NoPayload ELSE a.payload
    <3>1. /\ a.secret \in DOMAIN secrets /\ a.number \in DOMAIN secrets[a.secret].versions
          /\ secrets[a.secret].versions[a.number].payload = IF a.destroyed THEN NoPayload ELSE a.payload
      BY DEF IInv, AddedAreThere
    <3>2. a.number # 0
      BY <3>1 DEF IInv, Types, IsSecret
    <3> QED
      BY <3>1, <3>2 DEF SecretVersion
  <2>2. ASSUME NEW s \in DOMAIN secrets
        PROVE  AccessSecretVersion(s, 0) \in {Nothing, NoPayload} \cup {a.payload : a \in {b \in added : b.secret = s}}
    <3>1. \/ \E n \in DOMAIN secrets[s].versions : SecretVersion(s, 0) = secrets[s].versions[n]
          \/ SecretVersion(s, 0) = NoVersion
      BY DEF SecretVersion
    <3>2. CASE SecretVersion(s, 0) = NoVersion
      BY <3>2 DEF AccessSecretVersion, NoVersion
    <3>3. ASSUME NEW n \in DOMAIN secrets[s].versions, SecretVersion(s, 0) = secrets[s].versions[n]
          PROVE  AccessSecretVersion(s, 0) \in {Nothing, NoPayload} \cup {a.payload : a \in {b \in added : b.secret = s}}
      BY <3>3 DEF IInv, PayloadsWereAdded, AccessSecretVersion
    <3> QED
      BY <3>1, <3>2, <3>3
  <2> QED
    BY <2>1, <2>2 DEF PayloadsKept
<1> QED
  BY <1>1, Invariance, PTL

=============================================================================
